---- MODULE Spec2Model ----
(***************************************************************************)
(* TestRunner of the cloud-provider testing interface: registration of    *)
(* test suites, the sequential run loop (RunTests / runTestSuite /         *)
(* runTest) with its fail-fast error propagation, and the summary of the   *)
(* recorded results.                                                       *)
(*                                                                         *)
(* The caller modelled is the one of cmd/test-runner/main.go and of the    *)
(* package's tests: it registers suites, calls RunTests once and then      *)
(* reads the results.  Every callback (Setup, Run, Cleanup, Teardown) is   *)
(* caller code: its return value is a nondeterministic choice between nil  *)
(* and an error.                                                           *)
(***************************************************************************)
EXTENDS Integers, Sequences, FiniteSets

\* Bounds of the model.
MaxSuites == 2      \* suites a caller registers
MaxTests == 3       \* tests a caller registers, over all suites
MaxResults == 3     \* results a caller hands to GetSummary
MaxDuration == 2    \* longest duration of a result handed to GetSummary
MaxCalls == 2       \* calls of GetSummary on the same results
MaxTimeout == 2     \* longest Timeout of a test; its Run takes up to one more
MaxThreads == 2     \* threads that call the methods of one runner
MaxThreadCalls == 4 \* calls the threads make, all together
MaxScript == 2      \* invocations for which a check function is scripted
MaxCheckTime == 1   \* longest time an invocation of a check function takes
MaxShortTimeout == 2 \* longest of the timeouts shorter than a ticker interval
MaxTicks == 2       \* longest of the other timeouts, in ticker intervals
MaxGoroutines == 3  \* goroutines that write to one TestResults
MaxOps == 3         \* calls of the methods of one implementation
MaxRuns == 2        \* calls of RunTests on one runner, one after the other

\* Time is counted in units of 100 ms.
DefaultTimeout == 300   \* 30 * time.Second
SleepInterval == 1      \* time.Sleep(100 * time.Millisecond)
ConditionTicker == 10   \* time.NewTicker(1 * time.Second)
ProbeTicker == 50       \* time.NewTicker(5 * time.Second)

VARIABLES
    TestSuites,     \* TestRunner.TestSuites
    Results,        \* TestRunner.Results
    mu,             \* TestRunner.mu: "free" or "W" (write-locked by RunTests)
    pc,             \* position of the caller's thread
    si,             \* index of the suite RunTests is at
    ti,             \* index of the test runTestSuite is at
    ret,            \* the value RunTests returned
    trace,          \* the callbacks invoked and results appended, in order
    warnings,       \* number of "Warning: cleanup failed" lines printed
    now,            \* the clock time.Now() reads
    returned,       \* the values GetSummary returned for the present results
    threads,        \* per thread: where it is in the method it called
    calls,          \* number of calls the threads have made
    wait,           \* the call of a wait method and the thread that made it
    impl            \* a BaseTestImplementation, its TestResults, its callers

\* The state of a TestRunner and of the thread that runs it.
runnerVars == <<TestSuites, Results, mu, pc, si, ti, ret, trace, warnings, now>>

\* The state a run of the runner leaves alone.
notRunner == <<returned, threads, calls, wait, impl>>

vars == <<runnerVars, notRunner>>

----------------------------------------------------------------------------
\* Errors.  An error is its chain of frames, outermost first: fmt.Errorf with
\* %w puts a frame in front of the error it wraps; nil is the empty chain.

Nil == <<>>

Frame(msg, suite, test) == [msg |-> msg, suite |-> suite, test |-> test]

\* The error a callback returns when it fails: like the callbacks of the
\* package's tests ("intentional setup failure"), each has its own.
CallbackError(op, s, t) == <<Frame(op, s, t)>>

Wrap(msg, suite, test, err) == <<Frame(msg, suite, test)>> \o err

\* errors.Is(err, target): target is err or is wrapped by it.
ErrorsIs(err, target) ==
    \E k \in 0..Len(err) : SubSeq(err, k + 1, Len(err)) = target

\* What the callback op of suite s (and test t) can return.
CallbackReturns(op, s, t) == {Nil, CallbackError(op, s, t)}

----------------------------------------------------------------------------
\* Suites and tests.  A function field (Setup, Teardown, Cleanup) is modelled
\* by whether it is non-nil; Run is always set and RunTakes is the time it
\* takes to return.  The caller names a suite by its registration index and
\* a test by <<suite, index>>.  A skipped test carries a Cleanup function, so
\* that its not being invoked can be observed; the tests registered by
\* AddTestSuite have no Timeout and a Run that takes one unit of time.

TestShapes ==
    {x \in [Skip : BOOLEAN, Cleanup : BOOLEAN, Timeout : {0}, RunTakes : {1}] :
        x.Skip => x.Cleanup}

MkTest(s, i, shape) ==
    [Name |-> <<s, i>>, Skip |-> shape.Skip, Cleanup |-> shape.Cleanup,
     Timeout |-> shape.Timeout, RunTakes |-> shape.RunTakes]

MkSuite(s, setup, teardown, shapes) ==
    [Name |-> s, Setup |-> setup, Teardown |-> teardown,
     Tests |-> [i \in 1..Len(shapes) |-> MkTest(s, i, shapes[i])]]

RECURSIVE TotalTests(_)
TotalTests(suites) ==
    IF suites = <<>> THEN 0
    ELSE Len(Head(suites).Tests) + TotalTests(Tail(suites))

\* The suites a caller can register next: with or without a setup, with or
\* without a teardown, and with at least one test.
SuiteInputs(suites) ==
    LET s == Len(suites) + 1
        room == MaxTests - TotalTests(suites)
    IN  { MkSuite(s, setup, teardown, shapes) :
            setup \in BOOLEAN, teardown \in BOOLEAN,
            shapes \in UNION { [1..n -> TestShapes] : n \in 1..room } }

----------------------------------------------------------------------------
\* The threads of a program that shares one runner.  A thread is idle or in
\* a method of the runner: at is the statement it is at (or the callback it
\* is executing), si and ti are the loop indices of RunTests and
\* runTestSuite, err is what test.Run returned; view is the length of the
\* slice GetResults last returned to it, which shares its elements with
\* Results and which the thread reads without the lock.  When the method was
\* called from within a callback of a run of the same thread, outer holds
\* the frame of that run, to which the thread comes back.
Threads == 1..MaxThreads

IdleThread ==
    [at |-> "idle", si |-> 0, ti |-> 0, err |-> Nil, view |-> 0,
     outer |-> <<>>]

----------------------------------------------------------------------------
\* The wait methods.  A check function returns (met, err); what it returns at
\* its first invocations is scripted by the caller, and it returns
\* (false, nil) from then on.

CheckError == <<Frame("check failed", 0, 0)>>

CheckResults == [met : BOOLEAN, err : {Nil, CheckError}]

NotYet == [met |-> FALSE, err |-> Nil]

CheckScripts == UNION { [1..n -> CheckResults] : n \in 0..MaxScript }

CheckTimes == 0..MaxCheckTime

\* The timeouts a caller passes to a method that polls every interval.
WaitTimeouts(interval) ==
    (-1..MaxShortTimeout)
    \cup {interval * k + d : k \in 1..MaxTicks, d \in 0..1}

\* No wait method has been called.  Of a call: method is the method, at is
\* "polling" or "done", check is whether the check function is set, script
\* what it has yet to return, deadline the time the wait ends at, tick the
\* time of the next tick of the ticker, cancelled whether the context of the
\* caller is cancelled; checked, failed and met count the invocations of the
\* check function, those that returned an error and those that returned
\* met = true without one (up to two), last is what the last one returned
\* and lastAt when; ret is the error the method returned and value whether
\* it returned an object with it (the status of the load balancer, the
\* node); start is the time of the call and given the timeout the caller
\* passed.
NoWait ==
    [method |-> "none", at |-> "idle", check |-> FALSE, script |-> <<>>,
     deadline |-> 0, tick |-> 0, cancelled |-> FALSE,
     checked |-> 0, failed |-> 0, met |-> 0, last |-> NotYet, lastAt |-> 0,
     ret |-> Nil, value |-> FALSE, start |-> 0, given |-> 0]

----------------------------------------------------------------------------
\* A BaseTestImplementation and its TestResults.  A map is the function from
\* its keys to their values; a map of counts gives 0 for a missing key, as
\* the index expression of the code does.

ResourceTypes == {"node", "service", "route"}

ResourceNames == {"a", "b"}

Goroutines == 1..MaxGoroutines

\* TestResults{}: no counts, no metrics, no logs.
NewTestResults ==
    [ResourceCounts |-> [type \in ResourceTypes |-> 0],
     Metrics |-> [key \in {} |-> 0],
     Logs |-> <<>>]

\* A goroutine that has yet to make its calls.
NewGoroutine == [at |-> "AddLog", in |-> FALSE, seen |-> NewTestResults]

\* No method of the implementation has been called.
NoOp == [op |-> "none", type |-> "node", name |-> "a", ret |-> Nil]

\* NewBaseTestImplementation: no resource is tracked.  mu is the mutex of
\* the TestResults, ops counts the calls of the methods of the
\* implementation, last is the last of them and what it returned;
\* goroutines are the goroutines that write to the TestResults.  uncounted
\* is, per type, the number of names that were tracked when
\* SetupTestEnvironment last replaced the TestResults.
NewBaseTestImplementation ==
    [CreatedResources |-> [type \in ResourceTypes |-> <<>>],
     TestResults |-> NewTestResults,
     uncounted |-> [type \in ResourceTypes |-> 0],
     mu |-> "free",
     ops |-> 0,
     last |-> NoOp,
     goroutines |-> [g \in Goroutines |-> NewGoroutine]]

----------------------------------------------------------------------------
\* The trace: one event per callback invoked and per result appended
\* (what the spies of the package's tests observe).

Event(op, s, t, err) == [op |-> op, s |-> s, t |-> t, err |-> err]

NoSummary == [TotalTests |-> 0, PassedTests |-> 0, FailedTests |-> 0,
              SkippedTests |-> 0, TotalDuration |-> 0]

Init ==
    /\ TestSuites = <<>>
    /\ Results = <<>>
    /\ mu = "free"
    /\ pc = "idle"
    /\ si = 0
    /\ ti = 0
    /\ ret = Nil
    /\ trace = <<>>
    /\ warnings = 0
    /\ now = 0
    /\ returned = <<>>
    /\ threads = [th \in Threads |-> IdleThread]
    /\ calls = 0
    /\ wait = NoWait
    /\ impl = NewBaseTestImplementation

\* An AddTestSuite that puts the suite in front.
AppendSuite_InFront(suites, suite) == <<suite>> \o suites

\* `tr.TestSuites = append(tr.TestSuites, suite)`.
AppendSuite(suites, suite) == Append(suites, suite)

\* AddTestSuite: append the suite under the write lock.
AddTestSuite ==
    /\ pc = "idle"
    /\ mu = "free"
    /\ Len(TestSuites) < MaxSuites
    /\ \E suite \in SuiteInputs(TestSuites) :
           TestSuites' = AppendSuite(TestSuites, suite)
    /\ UNCHANGED <<Results, mu, pc, si, ti, ret, trace, warnings, now>>
    /\ UNCHANGED notRunner

\* `for i, x := range list`: the first index, the next one, the end.
RangeFirst == 1
\* A loop that advances by two.
RangeNext_Skips(i) == i + 2

\* A loop that takes the same element again.
RangeNext_Stays(i) == i

RangeNext(i) == i + 1
RangeDone(list, i) == i > Len(list)

\* An error check that lets every error pass.
Failed_Ignored(err) == FALSE

\* `if err != nil { return ... }` of RunTests and runTestSuite.
Failed(err) == err # Nil

\* RunTests, entry: take the write lock and start the loop over the suites.
RunTests ==
    /\ pc = "idle"
    /\ mu = "free"
    /\ mu' = "W"
    /\ pc' = "setup"
    /\ si' = RangeFirst
    /\ UNCHANGED <<TestSuites, Results, ti, ret, trace, warnings, now>>
    /\ UNCHANGED notRunner

\* RunTests returns err: the deferred Unlock runs and the caller goes on.
\* si and ti keep the place where the run ended.
Return(err) ==
    /\ ret' = err
    /\ pc' = "done"
    /\ mu' = "free"

\* An error that carries the message of RunTests and drops what it wraps.
SuiteError_Unwrapped(suite, err) ==
    <<Frame("failed to run test suite", suite.Name, 0)>>

\* RunTests: the error returned when runTestSuite returned err.
SuiteError(suite, err) == Wrap("failed to run test suite", suite.Name, 0, err)

\* RunTests, on an error of runTestSuite: wrap it and return it.
RunTestsFail(suite, err) == Return(SuiteError(suite, err))

\* RunTests, after the last suite: return nil.
RunTestsReturn ==
    /\ pc = "setup"
    /\ RangeDone(TestSuites, si)
    /\ Return(Nil)
    /\ UNCHANGED <<TestSuites, Results, si, ti, trace, warnings, now>>
    /\ UNCHANGED notRunner

\* A runTestSuite that never calls the setup.
SetupDue_Never(suite) == FALSE

\* runTestSuite: `if suite.Setup != nil`.
SetupDue(suite) == suite.Setup

\* runTestSuite: the error returned when suite.Setup failed.
SetupError(suite, err) ==
    Wrap("failed to setup test suite", suite.Name, 0, err)

\* RunTests calls runTestSuite for the next suite, which invokes suite.Setup
\* when set; its error ends the run.
SuiteSetup ==
    /\ pc = "setup"
    /\ ~RangeDone(TestSuites, si)
    /\ LET suite == TestSuites[si]
       IN  IF SetupDue(suite)
           THEN \E r \in CallbackReturns("setup", si, 0) :
                  /\ trace' = Append(trace, Event("setup", si, 0, r))
                  /\ IF Failed(r)
                     THEN /\ RunTestsFail(suite, SetupError(suite, r))
                          /\ UNCHANGED ti
                     ELSE /\ pc' = "test"
                          /\ ti' = RangeFirst
                          /\ UNCHANGED <<ret, mu>>
           ELSE /\ pc' = "test"
                /\ ti' = RangeFirst
                /\ UNCHANGED <<ret, mu, trace>>
    /\ UNCHANGED <<TestSuites, Results, si, warnings, now>>
    /\ UNCHANGED notRunner

\* A runTest that does not look at the skip flag.
SkipRequested_Never(test) == FALSE

\* runTest: `if test.Skip`.
SkipRequested(test) == test.Skip

\* runTest: the result recorded for a skipped test; the fields it does not
\* set have their zero value.
SkippedResult(test) ==
    [Test |-> test, Success |-> TRUE, Error |-> Nil,
     Duration |-> 0, StartTime |-> 0, EndTime |-> 0]

\* A run that is cut off when the timeout of the test elapses.
RunElapsed_Preempted(test) ==
    IF test.Timeout > 0 /\ test.RunTakes > test.Timeout
    THEN test.Timeout ELSE test.RunTakes

\* runTest: the time between startTime and endTime.  The context with the
\* timeout is not handed to test.Run, which is called with the test
\* interface alone and returns when it returns.
RunElapsed(test) == test.RunTakes

\* A result that is a success whatever test.Run returned.
RunResult_AlwaysSuccess(test, err) ==
    [Test |-> test, Success |-> TRUE, Error |-> err,
     Duration |-> RunElapsed(test), StartTime |-> now,
     EndTime |-> now + RunElapsed(test)]

\* runTest: the result recorded after test.Run returned err.
RunResult(test, err) ==
    [Test |-> test, Success |-> err = Nil, Error |-> err,
     Duration |-> RunElapsed(test), StartTime |-> now,
     EndTime |-> now + RunElapsed(test)]

\* An append that records the result twice.
AppendResult_Twice(results, result) == Append(Append(results, result), result)

\* An append that writes over the last result.
AppendResult_Overwrite(results, result) ==
    IF results = <<>> THEN <<result>>
    ELSE [results EXCEPT ![Len(results)] = result]

\* An append to a list that is cleared first.
AppendResult_Cleared(results, result) == <<result>>

\* runTest: `tr.Results = append(tr.Results, result)`.
AppendResult(results, result) == Append(results, result)

\* A cleanup that is only called for a test that passed.
CleanupDue_OnSuccess(test, err) == test.Cleanup /\ err = Nil

\* runTest: `if test.Cleanup != nil`, after run returned err.
CleanupDue(test, err) == test.Cleanup

\* A runTest that records the failure and goes on.
RunTestReturn_Swallowed(err) == Nil

\* runTest: what it returns, err being what test.Run returned.
RunTestReturn(err) == err

\* A runTest that fails a passed test with the error of its cleanup.
CleanupLogged_Fatal(err, cleanupErr) == IF err # Nil THEN err ELSE cleanupErr

\* runTest: cleanupErr is printed ("Log cleanup error but don't fail the
\* test") and dropped; err, what test.Run returned, is left as it is.
CleanupLogged(err, cleanupErr) == err

\* runTestSuite: the error returned when runTest returned err.
TestError(suite, test, err) ==
    Wrap("failed to run test", suite.Name, test.Name[2], err)

\* runTest of a skipped test: append its result and return nil.
RunSkipped(test) ==
    /\ Results' = AppendResult(Results, SkippedResult(test))
    /\ trace' = Append(trace, Event("result", si, ti, Nil))
    /\ ti' = RangeNext(ti)
    /\ UNCHANGED <<pc, ret, mu, warnings, now>>

\* runTest of any other test: invoke test.Run, append the result, invoke
\* test.Cleanup when set (its error is only printed), return run's error;
\* runTestSuite and RunTests return on a non-nil one.
RunAndCleanup(suite, test) ==
    \E r \in CallbackReturns("run", si, ti) :
       \E c \in CallbackReturns("cleanup", si, ti) :
          /\ Results' = AppendResult(Results, RunResult(test, r))
          /\ now' = now + RunElapsed(test)
          /\ IF CleanupDue(test, r)
             THEN /\ trace' = trace \o <<Event("run", si, ti, r),
                                         Event("result", si, ti, r),
                                         Event("cleanup", si, ti, c)>>
                  /\ warnings' = IF c # Nil THEN warnings + 1 ELSE warnings
             ELSE /\ trace' = trace \o <<Event("run", si, ti, r),
                                         Event("result", si, ti, r)>>
                  /\ UNCHANGED warnings
          /\ LET err == IF CleanupDue(test, r) THEN CleanupLogged(r, c)
                                                ELSE r
             IN  IF Failed(RunTestReturn(err))
                 THEN /\ RunTestsFail(suite, TestError(suite, test,
                                                       RunTestReturn(err)))
                      /\ UNCHANGED ti
                 ELSE /\ ti' = RangeNext(ti)
                      /\ UNCHANGED <<pc, ret, mu>>

\* runTestSuite calls runTest for the next test of the suite.
RunTest ==
    /\ pc = "test"
    /\ ~RangeDone(TestSuites[si].Tests, ti)
    /\ LET suite == TestSuites[si]
           test == suite.Tests[ti]
       IN  IF SkipRequested(test)
           THEN RunSkipped(test)
           ELSE RunAndCleanup(suite, test)
    /\ UNCHANGED <<TestSuites, si>>
    /\ UNCHANGED notRunner

\* A runTestSuite that never calls the teardown.
TeardownDue_Never(suite) == FALSE

\* runTestSuite: `if suite.Teardown != nil`.
TeardownDue(suite) == suite.Teardown

\* A teardown error reported with the message of the setup.
TeardownError_AsSetup(suite, err) ==
    Wrap("failed to setup test suite", suite.Name, 0, err)

\* runTestSuite: the error returned when suite.Teardown failed.
TeardownError(suite, err) ==
    Wrap("failed to teardown test suite", suite.Name, 0, err)

\* runTestSuite, after the last test: invoke suite.Teardown when set; its
\* error ends the run, otherwise runTestSuite returns nil (its loop index is
\* gone) and RunTests goes on with the next suite.
SuiteTeardown ==
    /\ pc = "test"
    /\ RangeDone(TestSuites[si].Tests, ti)
    /\ LET suite == TestSuites[si]
       IN  IF TeardownDue(suite)
           THEN \E r \in CallbackReturns("teardown", si, 0) :
                  /\ trace' = Append(trace, Event("teardown", si, 0, r))
                  /\ IF Failed(r)
                     THEN /\ RunTestsFail(suite, TeardownError(suite, r))
                          /\ UNCHANGED <<si, ti>>
                     ELSE /\ pc' = "setup"
                          /\ si' = RangeNext(si)
                          /\ ti' = 0
                          /\ UNCHANGED <<ret, mu>>
           ELSE /\ pc' = "setup"
                /\ si' = RangeNext(si)
                /\ ti' = 0
                /\ UNCHANGED <<ret, mu, trace>>
    /\ UNCHANGED <<TestSuites, Results, warnings, now>>
    /\ UNCHANGED notRunner

\* A loop that looks at the success flag before the skip flag.
RECURSIVE SummaryLoop_SuccessFirst(_, _)
SummaryLoop_SuccessFirst(results, acc) ==
    IF results = <<>> THEN acc
    ELSE LET result == Head(results)
             sum == [acc EXCEPT !.TotalDuration = @ + result.Duration]
         IN  SummaryLoop_SuccessFirst(Tail(results),
                 IF result.Success
                 THEN [sum EXCEPT !.PassedTests = @ + 1]
                 ELSE IF result.Test.Skip
                      THEN [sum EXCEPT !.SkippedTests = @ + 1]
                      ELSE [sum EXCEPT !.FailedTests = @ + 1])

\* GetSummary's loop over the results: add the duration; skipped first, then
\* passed, else failed.
RECURSIVE SummaryLoop(_, _)
SummaryLoop(results, acc) ==
    IF results = <<>> THEN acc
    ELSE LET result == Head(results)
             sum == [acc EXCEPT !.TotalDuration = @ + result.Duration]
         IN  SummaryLoop(Tail(results),
                 IF result.Test.Skip
                 THEN [sum EXCEPT !.SkippedTests = @ + 1]
                 ELSE IF result.Success
                      THEN [sum EXCEPT !.PassedTests = @ + 1]
                      ELSE [sum EXCEPT !.FailedTests = @ + 1])

\* A summary whose duration is assigned, not added: that of the last result.
Summarize_LastDuration(results) ==
    [SummaryLoop(results, [NoSummary EXCEPT !.TotalTests = Len(results)])
        EXCEPT !.TotalDuration =
            IF results = <<>> THEN 0 ELSE results[Len(results)].Duration]

\* GetSummary's value for a result list.
Summarize(results) ==
    SummaryLoop(results, [NoSummary EXCEPT !.TotalTests = Len(results)])

\* GetSummary: under the read lock, count the results; the runner is left as
\* it is and the caller gets Summarize(Results).
GetSummary ==
    /\ pc \in {"idle", "done"}
    /\ mu # "W"
    /\ Len(returned) < MaxCalls
    /\ returned' = Append(returned, Summarize(Results))
    /\ UNCHANGED runnerVars
    /\ UNCHANGED <<threads, calls, wait, impl>>

Next ==
    \/ AddTestSuite
    \/ RunTests
    \/ SuiteSetup
    \/ RunTest
    \/ SuiteTeardown
    \/ RunTestsReturn

Spec == Init /\ [][Next]_vars

\* The runs of the runner again, for the properties of the stages of a run
\* and of the error it returns.
SpecStages == Init /\ [][Next]_vars

----------------------------------------------------------------------------
\* A caller that calls RunTests again on the same runner after it has
\* returned.  The trace notes where: the event of a repeated call holds what
\* the call before it returned.

\* AddTestSuite with a suite that has a setup, with or without a teardown,
\* and tests that are run and have no cleanup.
AddRerunTestSuite ==
    /\ pc = "idle"
    /\ mu = "free"
    /\ Len(TestSuites) < MaxSuites
    /\ \E n \in 1..(MaxTests - TotalTests(TestSuites)), teardown \in BOOLEAN :
          \E shapes \in [1..n -> {x \in TestShapes : ~x.Cleanup}] :
             TestSuites' = AppendSuite(TestSuites,
                                       MkSuite(Len(TestSuites) + 1, TRUE,
                                               teardown, shapes))
    /\ UNCHANGED <<Results, mu, pc, si, ti, ret, trace, warnings, now>>
    /\ UNCHANGED notRunner

IsCallEvent(e) == e.op = "RunTests"

\* The calls of RunTests made so far, the first one included.
RunsCalled ==
    IF pc = "idle" THEN 0 ELSE 1 + Len(SelectSeq(trace, IsCallEvent))

\* RunTests, entry, on a runner it has run before: take the write lock and
\* start the loop over the suites; Results and TestSuites are what they are.
RunTestsAgain ==
    /\ pc = "done"
    /\ mu = "free"
    /\ RunsCalled < MaxRuns
    /\ mu' = "W"
    /\ pc' = "setup"
    /\ si' = RangeFirst
    /\ ti' = 0
    /\ trace' = Append(trace, Event("RunTests", 0, 0, ret))
    /\ UNCHANGED <<TestSuites, Results, ret, warnings, now>>
    /\ UNCHANGED notRunner

NextRerun ==
    \/ AddRerunTestSuite
    \/ RunTests
    \/ RunTestsAgain
    \/ SuiteSetup
    \/ RunTest
    \/ SuiteTeardown
    \/ RunTestsReturn

SpecRerun == Init /\ [][NextRerun]_vars

----------------------------------------------------------------------------
\* The run of tests that have a Timeout, as in the package's test of a run
\* with a timeout: the Run of a test may return before or after the Timeout
\* of the test has elapsed.

TimedShapes ==
    [Skip : {FALSE}, Cleanup : {FALSE}, Timeout : 0..MaxTimeout,
     RunTakes : 1..(MaxTimeout + 1)]

\* AddTestSuite with a suite of one such test.
AddTimedTestSuite ==
    /\ pc = "idle"
    /\ mu = "free"
    /\ Len(TestSuites) < MaxSuites
    /\ \E shape \in TimedShapes :
          TestSuites' = Append(TestSuites,
                               MkSuite(Len(TestSuites) + 1, FALSE, FALSE,
                                       <<shape>>))
    /\ UNCHANGED <<Results, mu, pc, si, ti, ret, trace, warnings, now>>
    /\ UNCHANGED notRunner

NextTimeout ==
    \/ AddTimedTestSuite
    \/ RunTests
    \/ SuiteSetup
    \/ RunTest
    \/ SuiteTeardown
    \/ RunTestsReturn

SpecTimeout == Init /\ [][NextTimeout]_vars

----------------------------------------------------------------------------
\* GetSummary on results the caller assigned to the Results field, as the
\* package's test of GetSummary does: any success flag with any skip flag.

ResultShapes == [Skip : BOOLEAN, Success : BOOLEAN, Duration : 0..MaxDuration]

\* A result as the test writes it: the test, the success flag and the
\* duration are set, every other field has its zero value.
GivenResult(shape) ==
    [Test |-> [Name |-> <<0, 0>>, Skip |-> shape.Skip, Cleanup |-> FALSE,
               Timeout |-> 0, RunTakes |-> 0],
     Success |-> shape.Success, Error |-> Nil,
     Duration |-> shape.Duration, StartTime |-> 0, EndTime |-> 0]

\* The lists that hold the same results with two of them exchanged; every
\* other order of the results is reached by such exchanges.
Reordered(results) ==
    {[results EXCEPT ![i] = results[j], ![j] = results[i]] :
        i \in 1..Len(results), j \in 1..Len(results)}

\* The caller writes one more result into the Results field of the runner.
GiveResult ==
    /\ pc = "idle"
    /\ mu = "free"
    /\ Len(Results) < MaxResults
    /\ \E shape \in ResultShapes :
          Results' = Append(Results, GivenResult(shape))
    /\ returned' = <<>>
    /\ UNCHANGED <<TestSuites, mu, pc, si, ti, ret, trace, warnings, now>>
    /\ UNCHANGED <<threads, calls, wait, impl>>

\* The caller assigns the same results in another order, two of them
\* exchanged.
ReorderResults ==
    /\ pc = "idle"
    /\ mu = "free"
    /\ \E list \in Reordered(Results) :
          /\ list # Results
          /\ Results' = list
    /\ UNCHANGED <<TestSuites, mu, pc, si, ti, ret, trace, warnings, now>>
    /\ UNCHANGED <<returned, threads, calls, wait, impl>>

NextSummary ==
    \/ GiveResult
    \/ GetSummary
    \/ ReorderResults

SpecSummary == Init /\ [][NextSummary]_vars

----------------------------------------------------------------------------
\* Several threads on one runner.  sync.RWMutex: mu is "free", "W" (locked
\* for writing) or "R" (locked for reading).  A thread is at "RunTests",
\* "GetSummary" or "GetResults" while it waits for the lock of the method it
\* called; in RunTests it is then at the head "suites" of the loop over the
\* suites, at the head "tests" of the loop over the tests of a suite, in a
\* callback ("Setup", "Run", "Cleanup", "Teardown") or at the "append" to
\* Results; in the other two it is reading Results ("summary", "results").

\* A Lock that never waits.
CanLock_Always(m) == TRUE

\* tr.mu.Lock() returns when the mutex is locked neither for writing nor for
\* reading.
CanLock(m) == m = "free"

\* An RLock that never waits.
CanRLock_Always(m) == TRUE

\* tr.mu.RLock() returns when the mutex is not locked for writing.
CanRLock(m) == m # "W"

\* The suites the threads share: one suite of one test.
SharedSuites ==
    {<<MkSuite(1, setup, teardown, <<shape>>)>> :
        setup \in BOOLEAN, teardown \in BOOLEAN, shape \in TestShapes}

InitThreads ==
    /\ TestSuites \in SharedSuites
    /\ Results = <<>>
    /\ mu = "free"
    /\ pc = "idle"
    /\ si = 0
    /\ ti = 0
    /\ ret = Nil
    /\ trace = <<>>
    /\ warnings = 0
    /\ now = 0
    /\ returned = <<>>
    /\ threads = [th \in Threads |-> IdleThread]
    /\ calls = 0
    /\ wait = NoWait
    /\ impl = NewBaseTestImplementation

Goto(th, at) == threads' = [threads EXCEPT ![th].at = at]

\* The thread is back from a method, with the slice it holds: idle, or in
\* the callback that called the method.
Idle(th) ==
    IF threads[th].outer = <<>>
    THEN [IdleThread EXCEPT !.view = threads[th].view]
    ELSE [threads[th].outer[1] EXCEPT !.view = threads[th].view]

\* A thread calls RunTests, GetSummary or GetResults and is at the Lock or
\* RLock the method starts with.
ThreadCall(th) ==
    /\ threads[th].at = "idle"
    /\ calls < MaxThreadCalls
    /\ calls' = calls + 1
    /\ \E method \in {"RunTests", "GetSummary", "GetResults"} :
          Goto(th, method)
    /\ UNCHANGED <<runnerVars, returned, wait, impl>>

\* RunTests: tr.mu.Lock() returns; the loop over the suites starts.
ThreadLock(th) ==
    /\ threads[th].at = "RunTests"
    /\ CanLock(mu)
    /\ mu' = "W"
    /\ threads' = [threads EXCEPT ![th].at = "suites",
                                  ![th].si = RangeFirst]
    /\ UNCHANGED <<TestSuites, Results, pc, si, ti, ret, trace, warnings, now>>
    /\ UNCHANGED <<returned, calls, wait, impl>>

\* RunTests returns (nil or an error): the deferred Unlock runs.
ThreadReturn(th) ==
    /\ threads' = [threads EXCEPT ![th] = Idle(th)]
    /\ mu' = "free"

\* runTestSuite returned nil: RunTests goes on with the next suite.
ThreadNextSuite(th) ==
    /\ threads' = [threads EXCEPT ![th].at = "suites",
                                  ![th].si = RangeNext(@), ![th].ti = 0]
    /\ UNCHANGED mu

\* runTestSuite starts the loop over the tests of the suite.
ThreadTests(th) ==
    /\ threads' = [threads EXCEPT ![th].at = "tests", ![th].ti = RangeFirst]
    /\ UNCHANGED mu

\* RunTests at the head of its loop: return nil after the last suite, else
\* call runTestSuite, which calls suite.Setup when set.
ThreadSuite(th) ==
    /\ threads[th].at = "suites"
    /\ IF RangeDone(TestSuites, threads[th].si) THEN ThreadReturn(th)
       ELSE IF SetupDue(TestSuites[threads[th].si])
            THEN Goto(th, "Setup") /\ UNCHANGED mu
            ELSE ThreadTests(th)
    /\ UNCHANGED <<TestSuites, Results, pc, si, ti, ret, trace, warnings, now>>
    /\ UNCHANGED <<returned, calls, wait, impl>>

\* suite.Setup returns: its error ends the run.
ThreadSetup(th) ==
    /\ threads[th].at = "Setup"
    /\ \E r \in CallbackReturns("setup", threads[th].si, 0) :
          IF Failed(r) THEN ThreadReturn(th) ELSE ThreadTests(th)
    /\ UNCHANGED <<TestSuites, Results, pc, si, ti, ret, trace, warnings, now>>
    /\ UNCHANGED <<returned, calls, wait, impl>>


\* runTestSuite at the head of its loop: after the last test call
\* suite.Teardown when set; else call runTest, which goes to its append for a
\* skipped test and calls test.Run for any other.
ThreadTest(th) ==
    /\ threads[th].at = "tests"
    /\ LET suite == TestSuites[threads[th].si]
       IN  IF RangeDone(suite.Tests, threads[th].ti)
           THEN IF TeardownDue(suite)
                THEN Goto(th, "Teardown") /\ UNCHANGED mu
                ELSE ThreadNextSuite(th)
           ELSE IF SkipRequested(suite.Tests[threads[th].ti])
                THEN Goto(th, "append") /\ UNCHANGED mu
                ELSE Goto(th, "Run") /\ UNCHANGED mu
    /\ UNCHANGED <<TestSuites, Results, pc, si, ti, ret, trace, warnings, now>>
    /\ UNCHANGED <<returned, calls, wait, impl>>

\* test.Run returns: runTest goes to its append with what it returned.
ThreadRun(th) ==
    /\ threads[th].at = "Run"
    /\ \E r \in CallbackReturns("run", threads[th].si, threads[th].ti) :
          threads' = [threads EXCEPT ![th].at = "append", ![th].err = r]
    /\ UNCHANGED <<TestSuites, Results, mu, pc, si, ti, ret, trace, warnings,
                   now>>
    /\ UNCHANGED <<returned, calls, wait, impl>>

\* runTest returns err to runTestSuite: an error ends the run.
ThreadTestDone(th, err) ==
    IF Failed(RunTestReturn(err)) THEN ThreadReturn(th)
    ELSE /\ threads' = [threads EXCEPT ![th].at = "tests",
                                       ![th].ti = RangeNext(@),
                                       ![th].err = Nil]
         /\ UNCHANGED mu

\* runTest appends the result: for a skipped test it returns nil then, for
\* any other it calls test.Cleanup when set.
ThreadAppend(th) ==
    /\ threads[th].at = "append"
    /\ LET test == TestSuites[threads[th].si].Tests[threads[th].ti]
           err == threads[th].err
       IN  IF SkipRequested(test)
           THEN /\ Results' = AppendResult(Results, SkippedResult(test))
                /\ ThreadTestDone(th, Nil)
                /\ UNCHANGED now
           ELSE /\ Results' = AppendResult(Results, RunResult(test, err))
                /\ now' = now + RunElapsed(test)
                /\ IF CleanupDue(test, err)
                   THEN Goto(th, "Cleanup") /\ UNCHANGED mu
                   ELSE ThreadTestDone(th, err)
    /\ UNCHANGED <<TestSuites, pc, si, ti, ret, trace, warnings>>
    /\ UNCHANGED <<returned, calls, wait, impl>>

\* test.Cleanup returns: its error is printed, runTest returns run's error.
ThreadCleanup(th) ==
    /\ threads[th].at = "Cleanup"
    /\ \E c \in CallbackReturns("cleanup", threads[th].si, threads[th].ti) :
          /\ warnings' = IF c # Nil THEN warnings + 1 ELSE warnings
          /\ ThreadTestDone(th, CleanupLogged(threads[th].err, c))
    /\ UNCHANGED <<TestSuites, Results, pc, si, ti, ret, trace, now>>
    /\ UNCHANGED <<returned, calls, wait, impl>>

\* suite.Teardown returns: its error ends the run.
ThreadTeardown(th) ==
    /\ threads[th].at = "Teardown"
    /\ \E r \in CallbackReturns("teardown", threads[th].si, 0) :
          IF Failed(r) THEN ThreadReturn(th) ELSE ThreadNextSuite(th)
    /\ UNCHANGED <<TestSuites, Results, pc, si, ti, ret, trace, warnings, now>>
    /\ UNCHANGED <<returned, calls, wait, impl>>

\* GetSummary, GetResults: tr.mu.RLock() returns; the thread reads Results.
ThreadRLock(th) ==
    /\ threads[th].at \in {"GetSummary", "GetResults"}
    /\ CanRLock(mu)
    /\ mu' = "R"
    /\ Goto(th, IF threads[th].at = "GetSummary" THEN "summary" ELSE "results")
    /\ UNCHANGED <<TestSuites, Results, pc, si, ti, ret, trace, warnings, now>>
    /\ UNCHANGED <<returned, calls, wait, impl>>

\* GetSummary, GetResults: the method has read Results and returns, the
\* second with the slice tr.Results itself; the deferred RUnlock runs, and
\* the mutex is free when no other thread reads.
ThreadRead(th) ==
    /\ threads[th].at \in {"summary", "results"}
    /\ threads' = [threads EXCEPT
                     ![th] = IF threads[th].at = "results"
                             THEN [Idle(th) EXCEPT !.view = Len(Results)]
                             ELSE Idle(th)]
    /\ mu' = IF \E other \in Threads \ {th} :
                    threads[other].at \in {"summary", "results"}
             THEN "R" ELSE "free"
    /\ UNCHANGED <<TestSuites, Results, pc, si, ti, ret, trace, warnings, now>>
    /\ UNCHANGED <<returned, calls, wait, impl>>

NextThreads ==
    \/ \E th \in Threads : ThreadCall(th)
    \/ \E th \in Threads : ThreadLock(th)
    \/ \E th \in Threads : ThreadSuite(th)
    \/ \E th \in Threads : ThreadSetup(th)
    \/ \E th \in Threads : ThreadTest(th)
    \/ \E th \in Threads : ThreadRun(th)
    \/ \E th \in Threads : ThreadAppend(th)
    \/ \E th \in Threads : ThreadCleanup(th)
    \/ \E th \in Threads : ThreadTeardown(th)
    \/ \E th \in Threads : ThreadRLock(th)
    \/ \E th \in Threads : ThreadRead(th)

SpecThreads == InitThreads /\ [][NextThreads]_vars

----------------------------------------------------------------------------
\* Threads that also register suites, and callbacks that call a method of
\* the runner that is executing them.

\* The suite a thread registers: one test, which is run.
AddedSuite(s) ==
    MkSuite(s, FALSE, FALSE,
            <<[Skip |-> FALSE, Cleanup |-> FALSE, Timeout |-> 0,
               RunTakes |-> 1]>>)

\* The threads that are in AddTestSuite, at its Lock.
Adding == {th \in Threads : threads[th].at = "AddTestSuite"}

RunnerMethods == {"RunTests", "GetSummary", "GetResults", "AddTestSuite"}

Callbacks == {"Setup", "Run", "Cleanup", "Teardown"}

\* A thread calls AddTestSuite and is at its Lock.
ThreadCallAdd(th) ==
    /\ threads[th].at = "idle"
    /\ calls < MaxThreadCalls
    /\ Len(TestSuites) + Cardinality(Adding) < MaxSuites
    /\ calls' = calls + 1
    /\ Goto(th, "AddTestSuite")
    /\ UNCHANGED <<runnerVars, returned, wait, impl>>

\* AddTestSuite: tr.mu.Lock() returns, the suite is appended, the deferred
\* Unlock runs.
ThreadAdd(th) ==
    /\ threads[th].at = "AddTestSuite"
    /\ CanLock(mu)
    /\ TestSuites' = AppendSuite(TestSuites, AddedSuite(Len(TestSuites) + 1))
    /\ ThreadReturn(th)
    /\ UNCHANGED <<Results, pc, si, ti, ret, trace, warnings, now>>
    /\ UNCHANGED <<returned, calls, wait, impl>>

\* A callback calls a method of the runner that runs it, on the thread of
\* the run: the thread is at the Lock or RLock the method starts with, and
\* the callback returns after the method has.
ThreadCallback(th) ==
    /\ threads[th].at \in Callbacks
    /\ threads[th].outer = <<>>
    /\ calls < MaxThreadCalls
    /\ calls' = calls + 1
    /\ \E method \in RunnerMethods :
          /\ method = "AddTestSuite" =>
                Len(TestSuites) + Cardinality(Adding) < MaxSuites
          /\ threads' = [threads EXCEPT
                           ![th] = [IdleThread EXCEPT
                                      !.at = method,
                                      !.view = threads[th].view,
                                      !.outer = <<threads[th]>>]]
    /\ UNCHANGED <<runnerVars, returned, wait, impl>>

NextShared ==
    \/ NextThreads
    \/ \E th \in Threads : ThreadCallAdd(th)
    \/ \E th \in Threads : ThreadAdd(th)
    \/ \E th \in Threads : ThreadCallback(th)

SpecShared == InitThreads /\ [][NextShared]_vars

----------------------------------------------------------------------------
\* The wait methods: WaitForCondition of BaseTestImplementation ("Base") and
\* of CCMTestInterface ("CCM"), WaitForLoadBalancer and WaitForNodeReady of
\* ExistingCCMTestInterface.

TimeoutMessage(method) ==
    CASE method = "Base" -> "condition not met within timeout"
      [] method = "CCM" -> "condition wait timed out"
      [] method = "WaitForLoadBalancer" -> "timeout waiting for load balancer"
      [] OTHER -> "timeout waiting for node to become ready"

\* The error a wait method makes when its deadline has passed.
TimeoutError(method) == <<Frame(TimeoutMessage(method), 0, 0)>>

\* A wait that returns nil when its deadline has passed.
TimeoutReturn_Nil(method) == Nil

\* What a wait method returns when its deadline has passed.
TimeoutReturn(method) == TimeoutError(method)

\* A wait that uses the timeout as it is given.
EffectiveTimeout_AsGiven(timeout) == timeout

\* `if timeout == 0 { timeout = 30 * time.Second }`.
EffectiveTimeout(timeout) == IF timeout = 0 THEN DefaultTimeout ELSE timeout

\* `time.Now().Before(deadline)`.
BeforeDeadline(t, deadline) == t < deadline

\* A check whose error is not looked at.
CheckFailed_Ignored(result) == FALSE

\* `if err != nil { return err }` of the Base method.
CheckFailed(result) == result.err # Nil

\* A poll that does not look at the error.
CheckRetried_Never(result) == FALSE

\* `if err != nil { ...; continue }` of the methods that poll on a ticker.
CheckRetried(result) == result.err # Nil

\* A wait that takes the absence of an error for success.
ConditionMet_OnNoError(result) == result.err = Nil

\* `if met { return nil }`; for the load balancer, that the service has an
\* ingress; for the node, that its Ready condition is true.
ConditionMet(result) == result.met

Later(a, b) == IF a < b THEN b ELSE a

UpToTwo(n) == IF n < 2 THEN n + 1 ELSE n

\* What the check function returns at its next invocation.
NextResult(w) == IF w.script = <<>> THEN NotYet ELSE Head(w.script)

\* The call w after an invocation that returned result at time t.
Checked(w, result, t) ==
    [w EXCEPT !.script = IF @ = <<>> THEN @ ELSE Tail(@),
              !.checked = UpToTwo(@),
              !.failed = IF result.err # Nil THEN UpToTwo(@) ELSE @,
              !.met = IF result.met /\ result.err = Nil THEN UpToTwo(@) ELSE @,
              !.last = result,
              !.lastAt = t]

\* The call w after the method returned err.
WaitReturn(w, err) == [w EXCEPT !.at = "done", !.ret = err]

\* A ticker whose first tick is there at once.
FirstTick_AtOnce(t, interval) == t

\* `time.NewTicker(interval)`: the first tick is one interval away.
FirstTick(t, interval) == t + interval

\* A wait method is called with the timeout given: the deadline is set from
\* the timeout it uses and, for the methods that poll on a ticker, the
\* ticker is started.
WaitCall(method, check, script, given, timeout, interval) ==
    /\ wait.at = "idle"
    /\ wait' = [NoWait EXCEPT !.method = method, !.at = "polling",
                              !.check = check, !.script = script,
                              !.deadline = now + timeout,
                              !.tick = FirstTick(now, interval),
                              !.start = now, !.given = given]
    /\ UNCHANGED <<runnerVars, returned, threads, calls, impl>>

\* BaseTestImplementation.WaitForCondition, entry.
BaseWaitForCondition ==
    \E timeout \in WaitTimeouts(SleepInterval), check \in BOOLEAN,
       script \in CheckScripts :
       /\ ~check => script = <<>>
       /\ WaitCall("Base", check, script, timeout,
                   EffectiveTimeout(timeout), SleepInterval)

\* BaseTestImplementation.WaitForCondition, one turn of its loop: before
\* the deadline invoke the check function when set; return its error, or
\* nil when the condition is met; else sleep.
BasePoll ==
    /\ wait.method = "Base"
    /\ wait.at = "polling"
    /\ BeforeDeadline(now, wait.deadline)
    /\ IF wait.check
       THEN \E d \in CheckTimes :
               LET result == NextResult(wait)
                   w == Checked(wait, result, now + d)
               IN  IF CheckFailed(result)
                   THEN wait' = WaitReturn(w, result.err) /\ now' = now + d
                   ELSE IF ConditionMet(result)
                        THEN wait' = WaitReturn(w, Nil) /\ now' = now + d
                        ELSE wait' = w /\ now' = now + d + SleepInterval
       ELSE /\ now' = now + SleepInterval
            /\ UNCHANGED wait
    /\ UNCHANGED <<TestSuites, Results, mu, pc, si, ti, ret, trace, warnings>>
    /\ UNCHANGED <<returned, threads, calls, impl>>

\* BaseTestImplementation.WaitForCondition, after its loop.
BaseTimeout ==
    /\ wait.method = "Base"
    /\ wait.at = "polling"
    /\ ~BeforeDeadline(now, wait.deadline)
    /\ wait' = WaitReturn(wait, TimeoutReturn("Base"))
    /\ UNCHANGED <<runnerVars, returned, threads, calls, impl>>

\* The methods that poll on a ticker wait in a select for the context to be
\* done (its deadline has passed or the context of the caller is cancelled)
\* and for the next tick; the check function takes less than an interval.
DoneAt == IF wait.cancelled THEN now ELSE Later(now, wait.deadline)

TickAt == Later(now, wait.tick)

\* `case <-ctx.Done()`: the method returns its timeout error.
SelectDone(method) ==
    /\ wait.method = method
    /\ wait.at = "polling"
    /\ DoneAt <= TickAt
    /\ now' = DoneAt
    /\ wait' = WaitReturn(wait, TimeoutReturn(method))
    /\ UNCHANGED <<TestSuites, Results, mu, pc, si, ti, ret, trace, warnings>>
    /\ UNCHANGED <<returned, threads, calls, impl>>

\* `case <-ticker.C`: invoke the check function when set; on its error go
\* on with the loop, return nil when the condition is met (and with it, in
\* the methods other than WaitForCondition, the object), else go on.
SelectTick(method, interval) ==
    /\ wait.method = method
    /\ wait.at = "polling"
    /\ TickAt <= DoneAt
    /\ IF wait.check
       THEN \E d \in CheckTimes :
               LET result == NextResult(wait)
                   w == [Checked(wait, result, TickAt + d)
                            EXCEPT !.tick = @ + interval]
               IN  /\ now' = TickAt + d
                   /\ IF CheckRetried(result) THEN wait' = w
                      ELSE IF ConditionMet(result)
                           THEN wait' = [WaitReturn(w, Nil) EXCEPT
                                           !.value = method # "CCM"]
                           ELSE wait' = w
       ELSE /\ now' = TickAt
            /\ wait' = [wait EXCEPT !.tick = @ + interval]
    /\ UNCHANGED <<TestSuites, Results, mu, pc, si, ti, ret, trace, warnings>>
    /\ UNCHANGED <<returned, threads, calls, impl>>

\* CCMTestInterface.WaitForCondition, entry.
CCMWaitForCondition ==
    \E timeout \in WaitTimeouts(ConditionTicker), check \in BOOLEAN,
       script \in CheckScripts :
       /\ ~check => script = <<>>
       /\ WaitCall("CCM", check, script, timeout,
                   EffectiveTimeout(timeout), ConditionTicker)

CCMTick == SelectTick("CCM", ConditionTicker)

CCMDone == SelectDone("CCM")

\* ExistingCCMTestInterface.WaitForLoadBalancer: the check is the Get of the
\* service, the timeout is used as it is.
WaitForLoadBalancer ==
    \E timeout \in WaitTimeouts(ProbeTicker), script \in CheckScripts :
       WaitCall("WaitForLoadBalancer", TRUE, script, timeout, timeout,
                ProbeTicker)

LoadBalancerTick == SelectTick("WaitForLoadBalancer", ProbeTicker)

LoadBalancerDone == SelectDone("WaitForLoadBalancer")

\* ExistingCCMTestInterface.WaitForNodeReady: the check is the Get of the
\* node, the timeout is used as it is.
WaitForNodeReady ==
    \E timeout \in WaitTimeouts(ProbeTicker), script \in CheckScripts :
       WaitCall("WaitForNodeReady", TRUE, script, timeout, timeout,
                ProbeTicker)

NodeReadyTick == SelectTick("WaitForNodeReady", ProbeTicker)

NodeReadyDone == SelectDone("WaitForNodeReady")

\* ExistingCCMTestInterface.WaitForCondition: `return nil`; the condition
\* and its check function are not looked at.
ExistingWaitForCondition ==
    \E timeout \in WaitTimeouts(ConditionTicker), check \in BOOLEAN,
       script \in CheckScripts :
       /\ ~check => script = <<>>
       /\ wait.at = "idle"
       /\ wait' = [NoWait EXCEPT !.method = "Existing", !.at = "done",
                                 !.check = check, !.script = script,
                                 !.start = now, !.given = timeout,
                                 !.ret = Nil]
       /\ UNCHANGED <<runnerVars, returned, threads, calls, impl>>

\* The caller of WaitForCondition cancels the context it passed.
CancelContext ==
    /\ wait.method \in {"Base", "CCM"}
    /\ wait.at = "polling"
    /\ ~wait.cancelled
    /\ wait' = [wait EXCEPT !.cancelled = TRUE]
    /\ UNCHANGED <<runnerVars, returned, threads, calls, impl>>

NextWait ==
    \/ BaseWaitForCondition
    \/ BasePoll
    \/ BaseTimeout
    \/ CCMWaitForCondition
    \/ CCMTick
    \/ CCMDone
    \/ WaitForLoadBalancer
    \/ LoadBalancerTick
    \/ LoadBalancerDone
    \/ WaitForNodeReady
    \/ NodeReadyTick
    \/ NodeReadyDone
    \/ ExistingWaitForCondition
    \/ CancelContext

SpecWait == Init /\ [][NextWait]_vars

\* The thread in BaseTestImplementation.WaitForCondition keeps running: the
\* check function and the sleep return.
SpecWaitFair == SpecWait /\ WF_vars(BasePoll) /\ WF_vars(BaseTimeout)

----------------------------------------------------------------------------
\* TestResults written by several goroutines.  Each goroutine calls AddLog,
\* SetMetric with a key of its own and IncrementResourceCount("node").  A
\* method takes the mutex and reads the field it is about (seen is what it
\* read), then writes the field and releases the mutex.

\* `append(tr.Logs, log)`.
AddLogTo(logs, log) == Append(logs, log)

\* `tr.Metrics[key] = value`.
SetMetricIn(metrics, key, value) ==
    [k \in DOMAIN metrics \cup {key} |->
        IF k = key THEN value ELSE metrics[k]]

\* An increment that leaves the count as it is.
IncrementIn_Not(counts, type) == counts

\* `tr.ResourceCounts[resourceType]++`.
IncrementIn(counts, type) == [counts EXCEPT ![type] = @ + 1]

\* What goroutine g logs, and the key of the metric it sets.
LogOf(g) == <<"log", g>>

MetricOf(g) == <<"metric", g>>

\* What a goroutine calls after a method.
NextCall(method) ==
    CASE method = "AddLog" -> "SetMetric"
      [] method = "SetMetric" -> "IncrementResourceCount"
      [] OTHER -> "done"

\* The goroutine is back from the method it was in.
Returned(g) ==
    [at |-> NextCall(impl.goroutines[g].at), in |-> FALSE,
     seen |-> NewTestResults]

\* AddLog, SetMetric, IncrementResourceCount: tr.mu.Lock() returns and the
\* method reads the fields of the TestResults.
TestResultsLock(g) ==
    /\ impl.goroutines[g].at # "done"
    /\ ~impl.goroutines[g].in
    /\ CanLock(impl.mu)
    /\ impl' = [impl EXCEPT !.mu = "W",
                            !.goroutines[g].in = TRUE,
                            !.goroutines[g].seen = impl.TestResults]
    /\ UNCHANGED <<runnerVars, returned, threads, calls, wait>>

\* AddLog: the log is appended; the deferred Unlock runs.
AddLog(g) ==
    /\ impl.goroutines[g].at = "AddLog"
    /\ impl.goroutines[g].in
    /\ impl' = [impl EXCEPT
                  !.TestResults.Logs =
                       AddLogTo(impl.goroutines[g].seen.Logs, LogOf(g)),
                  !.mu = "free",
                  !.goroutines[g] = Returned(g)]
    /\ UNCHANGED <<runnerVars, returned, threads, calls, wait>>

\* SetMetric: the metric is set; the deferred Unlock runs.
SetMetric(g) ==
    /\ impl.goroutines[g].at = "SetMetric"
    /\ impl.goroutines[g].in
    /\ impl' = [impl EXCEPT
                  !.TestResults.Metrics =
                       SetMetricIn(impl.goroutines[g].seen.Metrics,
                                   MetricOf(g), g),
                  !.mu = "free",
                  !.goroutines[g] = Returned(g)]
    /\ UNCHANGED <<runnerVars, returned, threads, calls, wait>>

\* IncrementResourceCount: the count is incremented; the deferred Unlock
\* runs.
IncrementResourceCount(g) ==
    /\ impl.goroutines[g].at = "IncrementResourceCount"
    /\ impl.goroutines[g].in
    /\ impl' = [impl EXCEPT
                  !.TestResults.ResourceCounts =
                       IncrementIn(impl.goroutines[g].seen.ResourceCounts,
                                   "node"),
                  !.mu = "free",
                  !.goroutines[g] = Returned(g)]
    /\ UNCHANGED <<runnerVars, returned, threads, calls, wait>>

NextResults ==
    \/ \E g \in Goroutines : TestResultsLock(g)
    \/ \E g \in Goroutines : AddLog(g)
    \/ \E g \in Goroutines : SetMetric(g)
    \/ \E g \in Goroutines : IncrementResourceCount(g)

SpecResults == Init /\ [][NextResults]_vars

----------------------------------------------------------------------------
\* The resources a BaseTestImplementation tracks, for one caller.

\* `for i, name := range list { if name == resource ...`: the index of the
\* first element that is the resource, 0 when there is none.
RECURSIVE FirstIndex(_, _, _)
FirstIndex(list, resource, i) ==
    IF i > Len(list) THEN 0
    ELSE IF list[i] = resource THEN i
    ELSE FirstIndex(list, resource, i + 1)

\* A removal that drops the element and all that follow it.
RemoveAt_Truncate(list, i) == SubSeq(list, 1, i - 1)

\* `append(list[:i], list[i+1:]...)`.
RemoveAt(list, i) == SubSeq(list, 1, i - 1) \o SubSeq(list, i + 1, Len(list))

\* The loop of a delete method: remove the first occurrence and break.
Untrack(list, resource) ==
    LET i == FirstIndex(list, resource, 1)
    IN  IF i = 0 THEN list ELSE RemoveAt(list, i)

\* `append(b.CreatedResources[type], name)`.
Track(list, resource) == Append(list, resource)

\* CreateTestNode, CreateTestService, CreateTestRoute: track the name, count
\* the resource, log, return the object and nil.
CreateTestResource(type, name) ==
    /\ impl.ops < MaxOps
    /\ CanLock(impl.mu)
    /\ impl' = [impl EXCEPT
                  !.CreatedResources[type] = Track(@, name),
                  !.TestResults.ResourceCounts = IncrementIn(@, type),
                  !.TestResults.Logs = AddLogTo(@, <<"Created", type, name>>),
                  !.ops = @ + 1,
                  !.last = [op |-> "create", type |-> type, name |-> name,
                            ret |-> Nil]]
    /\ UNCHANGED <<runnerVars, returned, threads, calls, wait>>

\* DeleteTestNode, DeleteTestService, DeleteTestRoute: untrack the name, log,
\* return nil.
DeleteTestResource(type, name) ==
    /\ impl.ops < MaxOps
    /\ CanLock(impl.mu)
    /\ impl' = [impl EXCEPT
                  !.CreatedResources[type] = Untrack(@, name),
                  !.TestResults.Logs = AddLogTo(@, <<"Deleted", type, name>>),
                  !.ops = @ + 1,
                  !.last = [op |-> "delete", type |-> type, name |-> name,
                            ret |-> Nil]]
    /\ UNCHANGED <<runnerVars, returned, threads, calls, wait>>

CreateTestNode == \E name \in ResourceNames : CreateTestResource("node", name)

DeleteTestNode == \E name \in ResourceNames : DeleteTestResource("node", name)

CreateTestService ==
    \E name \in ResourceNames : CreateTestResource("service", name)

DeleteTestService ==
    \E name \in ResourceNames : DeleteTestResource("service", name)

CreateTestRoute ==
    \E name \in ResourceNames : CreateTestResource("route", name)

DeleteTestRoute ==
    \E name \in ResourceNames : DeleteTestResource("route", name)

NextTracking ==
    \/ CreateTestNode
    \/ DeleteTestNode
    \/ CreateTestService
    \/ DeleteTestService
    \/ CreateTestRoute
    \/ DeleteTestRoute

SpecTracking == Init /\ [][NextTracking]_vars

----------------------------------------------------------------------------
\* The environment methods of BaseTestImplementation, called between the
\* create and delete methods.

\* `&TestResults{Success: true, ResourceCounts: make(...), ...}` with the
\* log the method adds to it.
FreshTestResults(log) ==
    [NewTestResults EXCEPT !.Logs = AddLogTo(@, <<log, "", "">>)]

\* SetupTestEnvironment: replace the TestResults and log; CreatedResources
\* is left as it is.
SetupTestEnvironment ==
    /\ impl.ops < MaxOps
    /\ CanLock(impl.mu)
    /\ impl' = [impl EXCEPT
                  !.TestResults =
                      FreshTestResults("Test environment setup completed"),
                  !.uncounted = [type \in ResourceTypes |->
                                   Len(impl.CreatedResources[type])],
                  !.ops = @ + 1,
                  !.last = [NoOp EXCEPT !.op = "setup"]]
    /\ UNCHANGED <<runnerVars, returned, threads, calls, wait>>

\* TeardownTestEnvironment: clear CreatedResources and log; the counts are
\* left as they are.
TeardownTestEnvironment ==
    /\ impl.ops < MaxOps
    /\ CanLock(impl.mu)
    /\ impl' = [impl EXCEPT
                  !.CreatedResources = [type \in ResourceTypes |-> <<>>],
                  !.TestResults.Logs =
                      AddLogTo(@, <<"Test environment teardown completed",
                                    "", "">>),
                  !.uncounted = [type \in ResourceTypes |-> 0],
                  !.ops = @ + 1,
                  !.last = [NoOp EXCEPT !.op = "teardown"]]
    /\ UNCHANGED <<runnerVars, returned, threads, calls, wait>>

\* ResetTestState: clear CreatedResources, replace the TestResults and log.
ResetTestState ==
    /\ impl.ops < MaxOps
    /\ CanLock(impl.mu)
    /\ impl' = [impl EXCEPT
                  !.CreatedResources = [type \in ResourceTypes |-> <<>>],
                  !.TestResults = FreshTestResults("Test state reset completed"),
                  !.uncounted = [type \in ResourceTypes |-> 0],
                  !.ops = @ + 1,
                  !.last = [NoOp EXCEPT !.op = "reset"]]
    /\ UNCHANGED <<runnerVars, returned, threads, calls, wait>>

NextEnvironment ==
    \/ CreateTestNode
    \/ DeleteTestNode
    \/ CreateTestService
    \/ DeleteTestService
    \/ CreateTestRoute
    \/ DeleteTestRoute
    \/ SetupTestEnvironment
    \/ TeardownTestEnvironment
    \/ ResetTestState

SpecEnvironment == Init /\ [][NextEnvironment]_vars

----------------------------------------------------------------------------
\* Vocabulary of the properties.

\* The places of the trace where callback op of suite s (test t) was invoked,
\* or where the result of test <<s, t>> was appended.
Idx(op, s, t) ==
    {i \in 1..Len(trace) :
        trace[i].op = op /\ trace[i].s = s /\ trace[i].t = t}

Invoked(op, s, t) == Idx(op, s, t) # {}

\* The places of Results that hold a result of test <<s, t>>.
ResultsOf(s, t) ==
    {k \in 1..Len(Results) : Results[k].Test.Name = <<s, t>>}

\* The places of Results that hold a result of a test of suite s.
SuiteResults(s) ==
    {k \in 1..Len(Results) : Results[k].Test.Name[1] = s}

IsResultEvent(e) == e.op = "result"

\* Results holds, in order, exactly what was appended: nothing was removed,
\* moved or rewritten afterwards.
ResultsAsAppended ==
    LET appended == SelectSeq(trace, IsResultEvent)
    IN  /\ Len(Results) = Len(appended)
        /\ \A k \in 1..Len(Results) :
              /\ Results[k].Test.Name = <<appended[k].s, appended[k].t>>
              /\ Results[k].Error = appended[k].err
              /\ Results[k].Success = (appended[k].err = Nil)

\* C1: fail-fast.  When the run of a test returns an error, exactly one
\* result is recorded for the test, it is the last one of Results, it has
\* success = false and that error; nothing but the cleanup of that test is
\* invoked afterwards (no later test, no teardown, no later suite), RunTests
\* returns a non-nil error, and the results appended before are still there.
C1_FailFast ==
    /\ ResultsAsAppended
    /\ \A i \in 1..Len(trace) :
          (trace[i].op = "run" /\ trace[i].err # Nil) =>
             LET s == trace[i].s
                 t == trace[i].t
             IN  /\ ResultsOf(s, t) = {Len(Results)}
                 /\ ~Results[Len(Results)].Success
                 /\ Results[Len(Results)].Error = trace[i].err
                 /\ ~Results[Len(Results)].Test.Skip
                 /\ \A j \in (i + 2)..Len(trace) :
                       trace[j] \in {Event("cleanup", s, t, r) :
                                       r \in CallbackReturns("cleanup", s, t)}
                 /\ pc = "done" /\ si = s /\ ti = t
                 /\ ret # Nil

\* C1, its case: a run that ended at the failure of the second test of the
\* first suite, with a second suite registered whose test was never run.
C1_Witness ==
    /\ pc = "done"
    /\ Len(TestSuites) = 2
    /\ Len(TestSuites[1].Tests) = 2
    /\ ~TestSuites[2].Tests[1].Skip
    /\ Len(Results) = 2
    /\ Results[1].Success
    /\ ~Results[2].Success
    /\ ret # Nil

\* C2: a failed setup.  When the setup of a suite returns an error, nothing
\* is invoked afterwards, no result is recorded for a test of that suite,
\* RunTests returns a non-nil error at once; and a test of a suite that has a
\* setup is attempted only after that setup succeeded.
C2_SetupFailure ==
    /\ \A i \in 1..Len(trace) :
          (trace[i].op = "setup" /\ trace[i].err # Nil) =>
             /\ i = Len(trace)
             /\ SuiteResults(trace[i].s) = {}
             /\ pc = "done"
             /\ ret # Nil
             /\ si = trace[i].s
    /\ \A s \in 1..Len(TestSuites) :
          (TestSuites[s].Setup /\ (SuiteResults(s) # {}
                                   \/ \E t \in 1..Len(TestSuites[s].Tests) :
                                         Invoked("run", s, t))) =>
             \E i \in Idx("setup", s, 0) :
                /\ trace[i].err = Nil
                /\ \A j \in 1..Len(trace) :
                      (trace[j].s = s /\ trace[j].op # "setup") => i < j

\* C2, its case: the setup of the first suite failed; the suite has tests
\* and a second suite is registered.
C2_Witness ==
    /\ pc = "done"
    /\ Len(TestSuites) = 2
    /\ Len(TestSuites[1].Tests) >= 1
    /\ ~TestSuites[1].Tests[1].Skip
    /\ Len(trace) = 1
    /\ trace[1].op = "setup"
    /\ trace[1].err # Nil
    /\ Results = <<>>
    /\ ret # Nil

\* C3 as stated: when the teardown of a suite fails, the results of the suite
\* are retained and the value RunTests returns equals the teardown's error.
C3_Original ==
    /\ ResultsAsAppended
    /\ \A i \in 1..Len(trace) :
          (trace[i].op = "teardown" /\ trace[i].err # Nil) =>
             /\ i = Len(trace)
             /\ pc = "done"
             /\ ret = trace[i].err

\* C3, amended: when the teardown of a suite fails, nothing is invoked
\* afterwards, Results holds one successful result per test of that suite,
\* as appended, and the value RunTests returns wraps the teardown's error
\* (errors.Is finds it) under the messages "failed to run test suite" and
\* "failed to teardown test suite"; it is not the teardown's error itself.
C3_TeardownFailure ==
    /\ ResultsAsAppended
    /\ \A i \in 1..Len(trace) :
          (trace[i].op = "teardown" /\ trace[i].err # Nil) =>
             LET s == trace[i].s
             IN  /\ i = Len(trace)
                 /\ pc = "done"
                 /\ si = s
                 /\ Cardinality(SuiteResults(s)) = Len(TestSuites[s].Tests)
                 /\ \A k \in SuiteResults(s) : Results[k].Success
                 /\ ErrorsIs(ret, trace[i].err)
                 /\ ret # trace[i].err
                 /\ ret = <<Frame("failed to run test suite", s, 0),
                            Frame("failed to teardown test suite", s, 0)>>
                          \o trace[i].err

\* C3, its case: the teardown of the first of two suites failed after two
\* tests of the suite were recorded.
C3_Witness ==
    /\ pc = "done"
    /\ Len(TestSuites) = 2
    /\ Len(Results) = 2
    /\ trace # <<>>
    /\ trace[Len(trace)].op = "teardown"
    /\ trace[Len(trace)].s = 1
    /\ trace[Len(trace)].err # Nil

\* The loop of RunTests has gone past test t of suite s.
Passed(s, t) == s < si \/ (s = si /\ t < ti)

\* C4: a skipped test.  For every test marked Skip neither run nor cleanup is
\* ever invoked; once the loop has gone past it there is exactly one result
\* for it, with success = true, no error and the skip flag set, and none
\* before; and the error RunTests returns never names a skipped test.
C4_Skipped ==
    /\ \A s \in 1..Len(TestSuites) : \A t \in 1..Len(TestSuites[s].Tests) :
          TestSuites[s].Tests[t].Skip =>
             /\ ~Invoked("run", s, t)
             /\ ~Invoked("cleanup", s, t)
             /\ Cardinality(ResultsOf(s, t)) = (IF Passed(s, t) THEN 1 ELSE 0)
             /\ \A k \in ResultsOf(s, t) :
                   /\ Results[k].Success
                   /\ Results[k].Error = Nil
                   /\ Results[k].Test.Skip
    /\ (pc = "done" /\ Len(ret) >= 2 /\ ret[2].msg = "failed to run test") =>
          ~TestSuites[ret[2].suite].Tests[ret[2].test].Skip

\* C4, its case: a run that returned nil after a skipped test followed by a
\* test that was run.
C4_Witness ==
    /\ pc = "done"
    /\ ret = Nil
    /\ Len(Results) >= 2
    /\ Results[1].Test.Skip
    /\ Results[1].Test.Cleanup
    /\ ~Results[2].Test.Skip

\* The plan of a run: what RunTests invokes and appends for the registered
\* suites when nothing fails.
Step(op, s, t) == [op |-> op, s |-> s, t |-> t]

TestPlan(s, t, test) ==
    IF test.Skip THEN <<Step("result", s, t)>>
    ELSE <<Step("run", s, t), Step("result", s, t)>>
         \o (IF test.Cleanup THEN <<Step("cleanup", s, t)>> ELSE <<>>)

RECURSIVE TestsPlan(_, _, _)
TestsPlan(s, tests, t) ==
    IF t > Len(tests) THEN <<>>
    ELSE TestPlan(s, t, tests[t]) \o TestsPlan(s, tests, t + 1)

SuitePlan(s, suite) ==
    (IF suite.Setup THEN <<Step("setup", s, 0)>> ELSE <<>>)
    \o TestsPlan(s, suite.Tests, 1)
    \o (IF suite.Teardown THEN <<Step("teardown", s, 0)>> ELSE <<>>)

RECURSIVE RunPlan(_, _)
RunPlan(suites, s) ==
    IF s > Len(suites) THEN <<>>
    ELSE SuitePlan(s, suites[s]) \o RunPlan(suites, s + 1)

\* C5: order.  What has been invoked and appended so far is a prefix of the
\* plan (suites in registration order; per suite the setup, then the tests
\* in listed order, each with run, result, cleanup, then the teardown); a run
\* that returned nil went through the whole plan; and Results lists the
\* tests in the order in which they were attempted.
C5_Order ==
    LET plan == RunPlan(TestSuites, 1)
    IN  /\ Len(trace) <= Len(plan)
        /\ \A i \in 1..Len(trace) :
              Step(trace[i].op, trace[i].s, trace[i].t) = plan[i]
        /\ (pc = "done" /\ ret = Nil) => Len(trace) = Len(plan)
        /\ ResultsAsAppended
        /\ \A k \in 1..Len(Results) :
              LET s == Results[k].Test.Name[1]
                  t == Results[k].Test.Name[2]
              IN  /\ s \in 1..Len(TestSuites)
                  /\ t \in 1..Len(TestSuites[s].Tests)
                  /\ Results[k].Test = TestSuites[s].Tests[t]

\* C5, its case: a run of two suites, both with setup and teardown, that
\* returned nil after three tests.
C5_Witness ==
    /\ pc = "done"
    /\ ret = Nil
    /\ Len(TestSuites) = 2
    /\ \A s \in 1..2 : TestSuites[s].Setup /\ TestSuites[s].Teardown
    /\ Len(TestSuites[2].Tests) >= 1
    /\ Len(Results) = 3
    /\ Len(trace) >= 9

\* Test t of suite s was attempted: runTest was entered for it (its run was
\* invoked or, for a skipped test, the loop went past it).
Attempted(s, t) ==
    IF TestSuites[s].Tests[t].Skip THEN Passed(s, t) ELSE Invoked("run", s, t)

\* The registered tests, each as <<suite, index>>.
RegisteredTests ==
    UNION { {<<s, t>> : t \in 1..Len(TestSuites[s].Tests)} :
              s \in 1..Len(TestSuites) }

\* C6: one result per attempted test.  Every attempted test has exactly one
\* result and its run was invoked at most once, a test that was not attempted
\* (blocked by a setup failure or an earlier abort, or not yet reached) has
\* none, and Results holds nothing else.
C6_OneResultPerAttempt ==
    /\ \A n \in RegisteredTests :
          /\ Cardinality(ResultsOf(n[1], n[2]))
                = (IF Attempted(n[1], n[2]) THEN 1 ELSE 0)
          /\ Cardinality(Idx("run", n[1], n[2])) <= 1
    /\ \A k \in 1..Len(Results) : Results[k].Test.Name \in RegisteredTests

\* C6, its case: a run aborted by a failing test, with a skipped test
\* recorded before it and a registered test that was never attempted.
C6_Witness ==
    /\ pc = "done"
    /\ ret # Nil
    /\ Len(Results) = 2
    /\ Results[1].Test.Skip
    /\ ~Results[2].Success
    /\ Cardinality(RegisteredTests) = 3

\* The tests of the first suite are [run, skip, run], the suite has a setup
\* and a teardown; the setup succeeded, the first test passed, the third
\* failed.
C7_Scenario ==
    /\ pc = "done"
    /\ Len(TestSuites) >= 1
    /\ TestSuites[1].Setup
    /\ TestSuites[1].Teardown
    /\ Len(TestSuites[1].Tests) = 3
    /\ ~TestSuites[1].Tests[1].Skip
    /\ TestSuites[1].Tests[2].Skip
    /\ ~TestSuites[1].Tests[3].Skip
    /\ \E i \in Idx("setup", 1, 0) : trace[i].err = Nil
    /\ \E i \in Idx("run", 1, 1) : trace[i].err = Nil
    /\ \E i \in Idx("run", 1, 3) : trace[i].err # Nil

\* The test, the success flag and the error of a result.
Outcome(result) ==
    [Test |-> result.Test, Success |-> result.Success, Error |-> result.Error]

\* C7: end to end.  In the scenario [pass, skip, fail] Results is the pass
\* result, the skip result and the fail result in that order, RunTests
\* returned a non-nil error and the teardown was not invoked; and whenever
\* the run of a test failed, the teardown of its suite is not invoked.
C7_EndToEnd ==
    /\ C7_Scenario =>
          /\ Len(Results) = 3
          /\ Outcome(Results[1]) = [Test |-> TestSuites[1].Tests[1],
                                    Success |-> TRUE, Error |-> Nil]
          /\ Outcome(Results[2]) = [Test |-> TestSuites[1].Tests[2],
                                    Success |-> TRUE, Error |-> Nil]
          /\ Outcome(Results[3]) = [Test |-> TestSuites[1].Tests[3],
                                    Success |-> FALSE,
                                    Error |-> CallbackError("run", 1, 3)]
          /\ ret # Nil
          /\ ~Invoked("teardown", 1, 0)
    /\ \A i \in 1..Len(trace) :
          (trace[i].op = "run" /\ trace[i].err # Nil) =>
             ~Invoked("teardown", trace[i].s, 0)

\* C7, its case: the scenario itself.
C7_Witness == C7_Scenario /\ TestSuites[1].Tests[3].Cleanup

\* The run is over and had entered the tests of suite s.
EnteredTests(s) == pc = "done" /\ (s < si \/ (s = si /\ ti >= 1))

\* A run of a test of suite s returned an error.
SuiteTestFailed(s) ==
    \E i \in 1..Len(trace) :
       trace[i].op = "run" /\ trace[i].s = s /\ trace[i].err # Nil

\* The teardown of suite s was invoked once, after everything else of s.
TeardownLast(s) ==
    /\ Cardinality(Idx("teardown", s, 0)) = 1
    /\ \A i \in Idx("teardown", s, 0) : \A j \in 1..Len(trace) :
          (trace[j].s = s /\ j # i) => j < i

\* C8 as stated: the teardown of a suite that has one is invoked after the
\* tests of the suite, whether they all completed or one of them failed.
C8_Original ==
    \A s \in 1..Len(TestSuites) :
       (TestSuites[s].Teardown /\ EnteredTests(s)) => TeardownLast(s)

\* C8, amended: the teardown of a suite that has one is invoked, once and
\* after the tests of the suite, when all of them completed without a run
\* error; when the run of one of them failed it is not invoked at all.
C8_TeardownOnlyAfterSuccess ==
    \A s \in 1..Len(TestSuites) :
       TestSuites[s].Teardown =>
          /\ SuiteTestFailed(s) => ~Invoked("teardown", s, 0)
          /\ (EnteredTests(s) /\ ~SuiteTestFailed(s)) => TeardownLast(s)
          /\ Invoked("teardown", s, 0) =>
                \A t \in 1..Len(TestSuites[s].Tests) :
                   \E k \in ResultsOf(s, t) : Results[k].Success

\* C8, its case: the first suite completed and its teardown was invoked; a
\* test of the second suite failed and the teardown of that suite was not.
C8_Witness ==
    /\ pc = "done"
    /\ Len(TestSuites) = 2
    /\ TestSuites[1].Teardown
    /\ TestSuites[2].Teardown
    /\ Len(TestSuites[1].Tests) >= 1
    /\ Invoked("teardown", 1, 0)
    /\ SuiteTestFailed(2)
    /\ ~Invoked("teardown", 2, 0)

\* A setup or a teardown returned an error.
StageFailed ==
    \E i \in 1..Len(trace) :
       trace[i].op \in {"setup", "teardown"} /\ trace[i].err # Nil

C10_CleanupOnce ==
    \A n \in RegisteredTests :
       LET s == n[1]
           t == n[2]
           test == TestSuites[s].Tests[t]
       IN  /\ Cardinality(Idx("cleanup", s, t)) <= 1
           /\ Invoked("cleanup", s, t) =>
                 test.Cleanup /\ ~test.Skip /\ Invoked("run", s, t)
           /\ (test.Cleanup /\ ~test.Skip /\ Invoked("run", s, t)) =>
                 \E i \in Idx("cleanup", s, t) :
                    /\ i >= 3
                    /\ trace[i - 1].op = "result"
                    /\ trace[i - 1].s = s /\ trace[i - 1].t = t
                    /\ trace[i - 2].op = "run"
                    /\ trace[i - 2].s = s /\ trace[i - 2].t = t
                    /\ ResultsOf(s, t) # {}

\* C10, its case: the cleanup was invoked after a run that passed and after
\* a run that failed.
C10_Witness ==
    /\ pc = "done"
    /\ Len(Results) = 2
    /\ Results[1].Success /\ ~Results[1].Test.Skip
    /\ ~Results[2].Success
    /\ Invoked("cleanup", Results[1].Test.Name[1], Results[1].Test.Name[2])
    /\ Invoked("cleanup", Results[2].Test.Name[1], Results[2].Test.Name[2])

\* What RunTests returns after the run of test t of suite s returned r.
ReturnAfterRun(s, t, r) ==
    IF r = Nil THEN Nil
    ELSE <<Frame("failed to run test suite", s, 0),
           Frame("failed to run test", s, t)>> \o r

\* C11: a cleanup failure is not fatal.  When the cleanup of a test returns
\* an error, the result of the test is the one appended before the cleanup
\* was invoked (success and error are those of run) and is the only one of
\* the test; the run goes on as after a cleanup that succeeded: the next
\* thing invoked is what the plan lists next, unless run itself had failed;
\* and the value RunTests returns is determined by what run returned alone
\* and never holds the cleanup's error.
C11_CleanupNonFatal ==
    LET plan == RunPlan(TestSuites, 1)
    IN  \A i \in 1..Len(trace) :
           (trace[i].op = "cleanup" /\ trace[i].err # Nil) =>
              LET s == trace[i].s
                  t == trace[i].t
                  r == trace[i - 1].err
              IN  /\ trace[i - 1] = Event("result", s, t, r)
                  /\ trace[i - 2] = Event("run", s, t, r)
                  /\ Cardinality(ResultsOf(s, t)) = 1
                  /\ \A k \in ResultsOf(s, t) :
                        /\ Results[k].Success = (r = Nil)
                        /\ Results[k].Error = r
                  /\ ~ErrorsIs(ret, trace[i].err)
                  /\ (pc = "done" /\ i = Len(trace)) =>
                        /\ ret = ReturnAfterRun(s, t, r)
                        /\ r = Nil => i = Len(plan)
                  /\ (pc # "done" /\ i = Len(trace)) => r = Nil
                  /\ i < Len(trace) =>
                        /\ r = Nil
                        /\ Step(trace[i + 1].op, trace[i + 1].s,
                                trace[i + 1].t) = plan[i + 1]

\* C11, its case: the cleanup of the first test failed after a run that
\* passed, the second test was run and passed, and RunTests returned nil.
C11_Witness ==
    /\ pc = "done"
    /\ ret = Nil
    /\ Len(Results) = 2
    /\ Results[1].Success /\ Results[2].Success
    /\ ~Results[2].Test.Skip
    /\ \E i \in Idx("cleanup", Results[1].Test.Name[1],
                     Results[1].Test.Name[2]) : trace[i].err # Nil
    /\ warnings >= 1

\* The sum of the durations of the first n results.
RECURSIVE SumDuration(_, _)
SumDuration(results, n) ==
    IF n = 0 THEN 0 ELSE SumDuration(results, n - 1) + results[n].Duration

\* C12: the summary.  For any list of results GetSummary returns: total =
\* the number of results; skipped = the number of results whose test is
\* marked Skip, whatever their success flag; passed = the number with
\* success and without Skip; failed = the number with neither; total
\* duration = the sum of the durations; so total = passed + failed + skipped.
C12_SummaryCounts ==
    LET K == 1..Len(Results)
        summary == Summarize(Results)
    IN  /\ summary.TotalTests = Len(Results)
        /\ summary.SkippedTests
              = Cardinality({k \in K : Results[k].Test.Skip})
        /\ summary.PassedTests
              = Cardinality({k \in K : Results[k].Success
                                        /\ ~Results[k].Test.Skip})
        /\ summary.FailedTests
              = Cardinality({k \in K : ~Results[k].Success
                                        /\ ~Results[k].Test.Skip})
        /\ summary.TotalDuration = SumDuration(Results, Len(Results))
        /\ summary.TotalTests = summary.PassedTests + summary.FailedTests
                                   + summary.SkippedTests
        /\ \A i \in 1..Len(returned) : returned[i] = summary

\* C12, its case: GetSummary returned the summary of three results: a passed
\* one, a failed one and one marked Skip whose success flag is false, with
\* durations that add up to three.
C12_Witness ==
    /\ Len(Results) = 3
    /\ Len(returned) >= 1
    /\ \E k \in 1..3 : Results[k].Test.Skip /\ ~Results[k].Success
    /\ returned[1].PassedTests = 1
    /\ returned[1].FailedTests = 1
    /\ returned[1].SkippedTests = 1
    /\ returned[1].TotalDuration = 3

\* C13: GetSummary is a pure function of the recorded results.  The values
\* returned by calls on the same results, in whatever order the results are
\* listed, are identical; exchanging two results does not change the
\* summary; and a call returns the summary of Results and leaves Results and
\* the suite list as they are.
C13_Pure ==
    /\ [](/\ \A i, j \in 1..Len(returned) : returned[i] = returned[j]
          /\ \A list \in Reordered(Results) :
                Summarize(list) = Summarize(Results))
    /\ [][Len(returned') > Len(returned) =>
            /\ returned'[Len(returned')] = Summarize(Results)
            /\ Results' = Results
            /\ TestSuites' = TestSuites]_vars

\* C13, its case: two calls were made on three results of different
\* durations, one of them failed and one skipped.
C13_Witness ==
    /\ Len(returned) >= 2
    /\ Len(Results) = 3
    /\ Results[1].Duration # Results[2].Duration
    /\ Results[2].Duration # Results[3].Duration
    /\ Results[1].Duration # Results[3].Duration
    /\ returned[2].FailedTests = 1
    /\ returned[2].SkippedTests = 1

\* C14: the timeout of a test is advisory.  The result of a test whose Run
\* returns after the Timeout of the test has elapsed is recorded when Run
\* has returned and not before (its duration is the time Run took, its end
\* is start + that time), its success flag and error are what Run returned;
\* nothing is started before that end (the clock has passed it, and every
\* later result starts at or after it), and RunTests returns nil exactly if
\* all runs returned nil.
C14_TimeoutAdvisory ==
    /\ \A k \in 1..Len(Results) :
          LET result == Results[k]
              test == result.Test
              s == test.Name[1]
              t == test.Name[2]
          IN  (test.Timeout > 0 /\ test.RunTakes > test.Timeout) =>
                 /\ result.Duration = test.RunTakes
                 /\ result.Duration > test.Timeout
                 /\ result.EndTime = result.StartTime + test.RunTakes
                 /\ now >= result.EndTime
                 /\ \A j \in (k + 1)..Len(Results) :
                       Results[j].StartTime >= result.EndTime
                 /\ \E i \in Idx("run", s, t) :
                       /\ trace[i].err \in CallbackReturns("run", s, t)
                       /\ result.Error = trace[i].err
                       /\ result.Success = (trace[i].err = Nil)
                       /\ (pc = "done" /\ k = Len(Results)) =>
                             ret = ReturnAfterRun(s, t, trace[i].err)
    /\ pc = "done" =>
          (ret = Nil <=> \A k \in 1..Len(Results) : Results[k].Success)

\* C14, its case: the Run of the first test returned nil one unit after its
\* Timeout of one unit had elapsed, the result is a success, the second test
\* was started then, and RunTests returned nil.
C14_Witness ==
    /\ pc = "done"
    /\ ret = Nil
    /\ Len(Results) = 2
    /\ Results[1].Test.Timeout = 1
    /\ Results[1].Test.RunTakes = 2
    /\ Results[1].Success
    /\ Results[1].Duration = 2
    /\ Results[2].StartTime = 2

\* The threads that are executing a callback, that are in RunTests with the
\* lock taken, that are appending to Results, that are reading Results.
Executing ==
    {th \in Threads :
        threads[th].at \in {"Setup", "Run", "Cleanup", "Teardown"}}

InRun ==
    Executing \cup
    {th \in Threads : threads[th].at \in {"suites", "tests", "append"}}

Appending == {th \in Threads : threads[th].at = "append"}

ReadingResults == {th \in Threads : threads[th].at \in {"summary", "results"}}

\* C15: strictly sequential.  At most one thread is executing a callback of
\* the runner at any time, and at most one is past the Lock of RunTests,
\* holding the mutex for writing, however many threads have called RunTests.
C15_Sequential ==
    /\ Cardinality(Executing) <= 1
    /\ Cardinality(InRun) <= 1
    /\ InRun # {} => mu = "W"

\* C15, its case: two threads have called RunTests; one is executing the Run
\* of the test, the other waits at the Lock, and an earlier run has recorded
\* a result.
C15_Witness ==
    /\ threads[1].at = "Run"
    /\ threads[2].at = "RunTests"
    /\ Len(Results) >= 1

\* C16: reads are safe.  While a thread is appending to Results no thread is
\* reading Results, and while a thread is reading no thread is in a run: a
\* thread that calls GetSummary or GetResults during a run waits at the
\* RLock until RunTests has returned.  The slice a thread got from
\* GetResults ends before the place an append writes to.
C16_ReadsExcludeAppends ==
    /\ ~(Appending # {} /\ ReadingResults # {})
    /\ ReadingResults # {} => (InRun = {} /\ mu = "R")
    /\ Appending # {} => mu = "W"
    /\ \A th \in Threads : threads[th].view < Len(Results) + 1

\* C16, its case: a thread that holds a slice from GetResults called
\* GetSummary while the run of another thread is at its append; it waits at
\* the RLock.
C16_Witness ==
    /\ threads[1].at = "append"
    /\ threads[2].at = "GetSummary"
    /\ threads[2].view >= 1

----------------------------------------------------------------------------
\* The wait methods, vocabulary of their properties.

TickerMethods == {"CCM", "WaitForLoadBalancer", "WaitForNodeReady"}

\* Every invocation of the check function so far returned (false, nil), and
\* so will every later one.
AlwaysNotYet ==
    /\ wait.check
    /\ wait.failed = 0
    /\ wait.met = 0
    /\ \A i \in 1..Len(wait.script) : wait.script[i] = NotYet

\* C17: in BaseTestImplementation.WaitForCondition a check-function error is
\* terminal.  Once an invocation has returned a non-nil error the method has
\* returned, what it returned is that error, that invocation is the last
\* and the only one that failed, and no time has passed since it returned.
C17_ErrorTerminal ==
    (wait.method = "Base" /\ wait.failed >= 1) =>
        /\ wait.at = "done"
        /\ wait.last.err # Nil
        /\ wait.ret = wait.last.err
        /\ wait.failed = 1
        /\ now = wait.lastAt

\* C17, its case: the second invocation of the check function returned an
\* error and the method returned it with time left before the deadline.
C17_Witness ==
    /\ wait.method = "Base"
    /\ wait.at = "done"
    /\ wait.checked = 2
    /\ wait.failed = 1
    /\ wait.ret = CheckError
    /\ now < wait.deadline

\* C18: BaseTestImplementation.WaitForCondition with a check function that
\* always returns (false, nil) eventually returns, and what it returns then
\* is the timeout error, never nil, at a time that is not before the
\* deadline and at most one check and one sleep after it.
C18_TimesOut ==
    /\ (wait.method = "Base" /\ wait.at = "polling" /\ AlwaysNotYet)
          ~> (wait.at = "done" /\ wait.ret = TimeoutError("Base"))
    /\ [](wait.method = "Base" /\ wait.at = "done" /\ AlwaysNotYet =>
            /\ wait.ret = TimeoutError("Base")
            /\ wait.ret # Nil
            /\ ~BeforeDeadline(now, wait.deadline)
            /\ now < wait.deadline + MaxCheckTime + SleepInterval + 1)

\* C18, its case: the check function returned (false, nil) twice or more
\* and the method returned the timeout error.
C18_Witness ==
    /\ wait.method = "Base"
    /\ wait.at = "done"
    /\ AlwaysNotYet
    /\ wait.checked = 2
    /\ wait.ret = TimeoutError("Base")

\* C19: WaitForCondition of BaseTestImplementation and of CCMTestInterface
\* returns nil only if an invocation of the check function returned
\* met = true without an error, and it returns right after the first such
\* invocation: that invocation is the last one, the only one of its kind,
\* and once it has been made the method has returned nil.
C19_NilOnlyWhenMet ==
    wait.method \in {"Base", "CCM"} =>
        /\ (wait.at = "done" /\ wait.ret = Nil) =>
               /\ wait.met = 1
               /\ wait.last = [met |-> TRUE, err |-> Nil]
               /\ now = wait.lastAt
        /\ wait.met >= 1 => (wait.at = "done" /\ wait.ret = Nil)

\* C19, its case: the second invocation of the check function of
\* CCMTestInterface.WaitForCondition returned (true, nil) after a first one
\* that returned (false, nil), and the method returned nil.
C19_Witness ==
    /\ wait.method = "CCM"
    /\ wait.at = "done"
    /\ wait.ret = Nil
    /\ wait.checked = 2
    /\ wait.failed = 0

\* C20: in CCMTestInterface.WaitForCondition, WaitForLoadBalancer and
\* WaitForNodeReady a check or probe error is terminal.  Once a check has
\* returned a non-nil error the method has returned, and what it returned
\* is that error.
C20_ErrorTerminal ==
    (wait.method \in TickerMethods /\ wait.failed >= 1) =>
        /\ wait.at = "done"
        /\ wait.last.err # Nil
        /\ wait.ret = wait.last.err

\* C21: a caller of WaitForCondition of BaseTestImplementation and of
\* CCMTestInterface can tell a timeout from a failure of the check function.
\* The error a wait returns after an invocation of the check function
\* returned an error is not the timeout error of the method: a wait whose
\* check failed is never reported as a timeout.
C21_TimeoutDistinct ==
    (wait.method \in {"Base", "CCM"} /\ wait.at = "done"
        /\ wait.failed >= 1) =>
        wait.ret # TimeoutError(wait.method)

\* C22: a WaitForCondition call of BaseTestImplementation and of
\* CCMTestInterface ends only because the check returned met = true, the
\* check returned an error, or the timeout of the wait has elapsed; the
\* cancellation of the context of the caller does not end it.
C22_DeadlineOnly ==
    (wait.method \in {"Base", "CCM"} /\ wait.at = "done") =>
        \/ wait.ret = Nil /\ wait.last = [met |-> TRUE, err |-> Nil]
        \/ wait.failed >= 1 /\ wait.ret = wait.last.err
        \/ wait.ret = TimeoutError(wait.method)
              /\ ~BeforeDeadline(now, wait.deadline)

----------------------------------------------------------------------------
\* Threads that share a runner, vocabulary.

\* The threads whose call of RunTests has taken the lock and has not
\* returned: in the loops, in a callback, or in a method a callback called.
Running == InRun \cup {th \in Threads : threads[th].outer # <<>>}

\* The thread is in a method that a callback of its own run called.
Nested(th) == threads[th].outer # <<>>

\* C23: Results is append-only.  Every step of any thread in AddTestSuite,
\* RunTests, GetResults or GetSummary leaves every recorded result at its
\* place and as it was: Results only grows at its end, also when a later
\* test, cleanup, teardown or suite fails.
C23_AppendOnly ==
    [][/\ Len(Results') >= Len(Results)
       /\ SubSeq(Results', 1, Len(Results)) = Results]_vars

\* C23, its case: a later run recorded a failed result after the result of
\* an earlier run, which a thread holds in a slice from GetResults, and a
\* suite was registered afterwards.
C23_Witness ==
    /\ Len(Results) = 2
    /\ Results[1].Success
    /\ ~Results[2].Success
    /\ Len(TestSuites) = 2
    /\ \E th \in Threads : threads[th].view = 1

\* C28: RunTests holds the lock from its start until it returns.  A call of
\* GetSummary, GetResults or AddTestSuite takes its lock, reads or appends,
\* and returns only while no run is in flight, and the registered suites do
\* not change during a run: no reader sees a run that is partly recorded
\* and a run does not execute a suite added after it started.
C28_ExclusiveRun ==
    /\ [](\A th \in Threads :
            threads[th].at \in {"summary", "results"} => Running = {})
    /\ [][/\ \A th \in Threads :
               (threads[th].at \in {"GetSummary", "GetResults", "AddTestSuite",
                                     "summary", "results"}
                   /\ threads'[th].at # threads[th].at) => Running = {}
          /\ TestSuites' # TestSuites => (Running = {} /\ Running' = {})]_vars

\* C28, its case: during the run of one thread a second thread waits in
\* AddTestSuite; a result of the run is recorded.
C28_Witness ==
    /\ threads[1].at = "Cleanup"
    /\ threads[2].at = "AddTestSuite"
    /\ Len(Results) = 1

\* C29: a callback that calls GetSummary, GetResults, AddTestSuite or
\* RunTests on the runner that executes it deadlocks.  The thread stays at
\* the Lock or RLock of that method for ever, with the mutex held for
\* writing by its own run: the method does not return, nor does the
\* callback, nor RunTests.
C29_SelfDeadlock ==
    /\ [](\A th \in Threads :
            Nested(th) => (mu = "W" /\ threads[th].at \in RunnerMethods))
    /\ [][\A th \in Threads :
            Nested(th) => (threads'[th] = threads[th] /\ mu' = "W")]_vars

\* C29, its case: the Run of a test called GetSummary, after an earlier run
\* of the runner had returned.
C29_Witness ==
    /\ threads[1].at = "GetSummary"
    /\ Nested(1)
    /\ threads[1].outer[1].at = "Run"
    /\ Len(Results) = 1

----------------------------------------------------------------------------
\* The stages of a run, vocabulary.

Stages == {"setup", "run", "teardown"}

\* The places of the trace where a setup, a run or a teardown returned an
\* error.
StageFailures ==
    {i \in 1..Len(trace) : trace[i].op \in Stages /\ trace[i].err # Nil}

\* The message runTestSuite puts in front of the error of a stage.
StageMessage(op) ==
    CASE op = "setup" -> "failed to setup test suite"
      [] op = "run" -> "failed to run test"
      [] OTHER -> "failed to teardown test suite"

\* C24: no stage is retried and the first failure wins.  Within a RunTests
\* call every setup, teardown, run and cleanup is invoked at most once; at
\* most one setup, run or teardown fails; once one has failed no setup, run
\* or teardown is invoked any more and RunTests has returned an error that
\* wraps the error of that stage; and an error RunTests returns always
\* stems from such a failure.
C24_FirstFailureWins ==
    /\ \A i \in 1..Len(trace) : \A j \in (i + 1)..Len(trace) :
          trace[i].op = "result" \/ trace[i].op # trace[j].op
             \/ trace[i].s # trace[j].s \/ trace[i].t # trace[j].t
    /\ Cardinality(StageFailures) <= 1
    /\ \A i \in StageFailures :
          /\ \A j \in (i + 1)..Len(trace) : trace[j].op \notin Stages
          /\ pc = "done"
          /\ ErrorsIs(ret, trace[i].err)
    /\ (pc = "done" /\ ret # Nil) => StageFailures # {}

\* C24, its case: the teardown of the first suite failed after the setup
\* and a test of the suite had succeeded; a second suite with a setup is
\* registered and was never reached.
C24_Witness ==
    /\ pc = "done"
    /\ Len(TestSuites) = 2
    /\ TestSuites[2].Setup
    /\ Len(trace) >= 4
    /\ trace[1].op = "setup"
    /\ trace[Len(trace)].op = "teardown"
    /\ trace[Len(trace)].err # Nil

\* C25: every error of a setup, of a run of a test or of a teardown reaches
\* the caller of RunTests.  The value returned is not nil, starts with the
\* message of RunTests and the suite, goes on with the message of the stage
\* (setup, test, teardown), the suite and, for a test, the test, and wraps
\* the error of the callback as it was.
C25_ErrorSurfaced ==
    \A i \in StageFailures :
       /\ pc = "done"
       /\ ret # Nil
       /\ Len(ret) = Len(trace[i].err) + 2
       /\ ret[1] = Frame("failed to run test suite", trace[i].s, 0)
       /\ ret[2] = Frame(StageMessage(trace[i].op), trace[i].s, trace[i].t)
       /\ SubSeq(ret, 3, Len(ret)) = trace[i].err
       /\ ErrorsIs(ret, trace[i].err)

\* C25, its case: the run of the second test of the second suite failed.
C25_Witness ==
    /\ pc = "done"
    /\ Len(ret) = 3
    /\ ret[2] = Frame("failed to run test", 2, 2)

\* C30: within a RunTests call at most one result with success = false is
\* appended, and it is the last one; when RunTests has returned nil there is
\* one result for every test of every registered suite and none of them has
\* success = false.
C30_OneFailureLast ==
    /\ Cardinality({k \in 1..Len(Results) : ~Results[k].Success}) <= 1
    /\ \A k \in 1..Len(Results) : ~Results[k].Success => k = Len(Results)
    /\ (pc = "done" /\ ret = Nil) =>
          /\ \A n \in RegisteredTests :
                Cardinality(ResultsOf(n[1], n[2])) = 1
          /\ Len(Results) = Cardinality(RegisteredTests)
          /\ \A k \in 1..Len(Results) : Results[k].Success

\* C30, its case: the third test of a run failed after two results with
\* success = true; its cleanup was invoked after the append.
C30_Witness ==
    /\ pc = "done"
    /\ Len(Results) = 3
    /\ ~Results[3].Success
    /\ trace[Len(trace)].op = "cleanup"

----------------------------------------------------------------------------
\* The goroutines that have returned from the method.
After(method) ==
    {g \in Goroutines :
        LET at == impl.goroutines[g].at
        IN  CASE method = "AddLog" -> at # "AddLog"
              [] method = "SetMetric" ->
                    at \in {"IncrementResourceCount", "done"}
              [] OTHER -> at = "done"}

\* C26: concurrent AddLog, SetMetric and IncrementResourceCount calls on one
\* TestResults lose no update.  At any time there is one log for every
\* goroutine that has returned from AddLog, one metric for every goroutine
\* that has returned from SetMetric, and the count of "node" is the number
\* of goroutines that have returned from IncrementResourceCount; so when
\* all n goroutines are done there are n logs, n metrics and the count is n.
C26_NoLostUpdate ==
    LET results == impl.TestResults
    IN  /\ Len(results.Logs) = Cardinality(After("AddLog"))
        /\ \A g \in After("AddLog") :
              \E i \in 1..Len(results.Logs) : results.Logs[i] = LogOf(g)
        /\ DOMAIN results.Metrics = {MetricOf(g) : g \in After("SetMetric")}
        /\ \A g \in After("SetMetric") : results.Metrics[MetricOf(g)] = g
        /\ results.ResourceCounts["node"]
              = Cardinality(After("IncrementResourceCount"))
        /\ (\A g \in Goroutines : impl.goroutines[g].at = "done") =>
              /\ Len(results.Logs) = MaxGoroutines
              /\ Cardinality(DOMAIN results.Metrics) = MaxGoroutines
              /\ results.ResourceCounts["node"] = MaxGoroutines

\* C26, its case: all goroutines are done, and the last one logged first.
C26_Witness ==
    /\ \A g \in Goroutines : impl.goroutines[g].at = "done"
    /\ impl.TestResults.Logs[1] = LogOf(MaxGoroutines)
    /\ impl.TestResults.ResourceCounts["node"] >= 2

\* C27: resource tracking.  A create method appends the name at the end of
\* CreatedResources of its type and increments ResourceCounts of that type
\* by one; a delete method removes the first tracked occurrence of the
\* name, keeps the order of the other names and returns nil, also when the
\* name is not tracked, which changes nothing; the names of the other
\* types stay as they are.
C27_ResourceTracking ==
    [][impl'.ops = impl.ops + 1 =>
          LET type == impl'.last.type
              name == impl'.last.name
              before == impl.CreatedResources[type]
              after == impl'.CreatedResources[type]
              occurs == {i \in 1..Len(before) : before[i] = name}
          IN  /\ \A other \in ResourceTypes \ {type} :
                    impl'.CreatedResources[other] = impl.CreatedResources[other]
              /\ impl'.last.ret = Nil
              /\ impl'.last.op = "create" =>
                    /\ Len(after) = Len(before) + 1
                    /\ after[Len(after)] = name
                    /\ \A i \in 1..Len(before) : after[i] = before[i]
                    /\ impl'.TestResults.ResourceCounts[type]
                          = impl.TestResults.ResourceCounts[type] + 1
                    /\ \A other \in ResourceTypes \ {type} :
                          impl'.TestResults.ResourceCounts[other]
                             = impl.TestResults.ResourceCounts[other]
              /\ (impl'.last.op = "delete" /\ occurs = {}) => after = before
              /\ (impl'.last.op = "delete" /\ occurs # {}) =>
                    \E first \in occurs :
                       /\ \A i \in occurs : first <= i
                       /\ Len(after) = Len(before) - 1
                       /\ \A i \in 1..Len(after) :
                             after[i] = IF i < first THEN before[i]
                                        ELSE before[i + 1]]_vars

\* C27, its case: a name tracked twice was deleted once and its second
\* occurrence is left.
C27_Witness ==
    /\ impl.last.op = "delete"
    /\ impl.ops = 3
    /\ impl.last.type = "node"
    /\ impl.CreatedResources["node"] = <<impl.last.name>>
    /\ impl.TestResults.ResourceCounts["node"] = 2

----------------------------------------------------------------------------
\* The wait methods, the first check, the default timeout and the value.

\* C33: CCMTestInterface.WaitForCondition makes its first check only after
\* the first tick of one second: no check returns before one tick interval
\* after the call, and when the timeout it uses is shorter than the tick
\* interval it returns the timeout error without an invocation of the check
\* function, also when the condition holds already.
\* BaseTestImplementation.WaitForCondition checks once before its first
\* sleep: as long as it has not invoked the check function no time has
\* passed, and it returns without an invocation only when the deadline is
\* not after the call.
C33_FirstCheck ==
    /\ wait.method = "CCM" =>
          /\ wait.checked >= 1 => wait.lastAt >= wait.start + ConditionTicker
          /\ (wait.at = "done" /\ wait.deadline - wait.start < ConditionTicker)
                => /\ wait.checked = 0
                   /\ wait.ret = TimeoutError("CCM")
    /\ (wait.method = "Base" /\ wait.check /\ wait.checked = 0) =>
          /\ now = wait.start
          /\ wait.at = "done" => ~BeforeDeadline(wait.start, wait.deadline)

\* C33, its case: CCMTestInterface.WaitForCondition was called with a
\* timeout of 200 ms and a check function that would have returned
\* (true, nil) at once; the context of the caller was not cancelled, and
\* the method returned the timeout error without invoking the function.
C33_Witness ==
    /\ wait.method = "CCM"
    /\ wait.at = "done"
    /\ wait.check
    /\ ~wait.cancelled
    /\ wait.given = 2
    /\ wait.script # <<>>
    /\ Head(wait.script) = [met |-> TRUE, err |-> Nil]
    /\ wait.checked = 0
    /\ wait.ret = TimeoutError("CCM")

\* C34: ExistingCCMTestInterface.WaitForCondition returns nil only if an
\* invocation of the check function of the condition returned met = true.
C34_PollerContract ==
    (wait.method = "Existing" /\ wait.at = "done" /\ wait.ret = Nil) =>
        wait.met >= 1

\* C36: with a Timeout of 0, WaitForCondition of BaseTestImplementation and
\* of CCMTestInterface sets its deadline 30 seconds after the call; a
\* Timeout that is not 0 is the distance of the deadline from the call.  A
\* call the caller does not cancel returns the timeout error only when the
\* deadline has come, and it is not polling any more once the deadline and
\* the time of a check have passed.
C36_DefaultTimeout ==
    wait.method \in {"Base", "CCM"} =>
        /\ wait.given = 0 => wait.deadline = wait.start + DefaultTimeout
        /\ wait.given # 0 => wait.deadline = wait.start + wait.given
        /\ (wait.at = "done" /\ ~wait.cancelled
               /\ wait.ret = TimeoutError(wait.method))
              => now >= wait.deadline
        /\ wait.at = "polling" =>
              now <= Later(wait.start, wait.deadline) + MaxCheckTime

\* C36, its case: CCMTestInterface.WaitForCondition was called with a
\* Timeout of 0, its check function was invoked more than once and never
\* returned met = true, and it returned the timeout error after 30 seconds.
C36_Witness ==
    /\ wait.method = "CCM"
    /\ wait.given = 0
    /\ wait.at = "done"
    /\ ~wait.cancelled
    /\ wait.checked = 2
    /\ wait.met = 0
    /\ wait.ret = TimeoutError("CCM")
    /\ now = DefaultTimeout

\* C37: ExistingCCMTestInterface.WaitForLoadBalancer returns a status with
\* a nil error only when the Get it made last returned, without an error,
\* a service with an ingress entry, and it returns then at once; as long as
\* no Get has returned such a service it is polling, until it returns, when
\* the timeout has passed, no status and the timeout error.
C37_LoadBalancerStatus ==
    wait.method = "WaitForLoadBalancer" =>
        /\ wait.at = "done" =>
              \/ /\ wait.ret = Nil
                 /\ wait.value
                 /\ wait.met = 1
                 /\ wait.last = [met |-> TRUE, err |-> Nil]
                 /\ now = wait.lastAt
              \/ /\ wait.ret = TimeoutError("WaitForLoadBalancer")
                 /\ ~wait.value
                 /\ wait.met = 0
                 /\ ~BeforeDeadline(now, wait.deadline)
        /\ wait.at = "polling" => wait.met = 0 /\ ~wait.value
        /\ wait.met >= 1 => wait.at = "done"

\* C37, its case: the first Get returned an error, the second a service
\* with an ingress entry, and WaitForLoadBalancer returned its status.
C37_Witness ==
    /\ wait.method = "WaitForLoadBalancer"
    /\ wait.at = "done"
    /\ wait.failed = 1
    /\ wait.checked = 2
    /\ wait.value
    /\ wait.ret = Nil

----------------------------------------------------------------------------
\* The teardown of a suite and the setups.

\* The setup of suite s, when the suite has one, was invoked and returned
\* nil.
SetupSucceeded(s) ==
    TestSuites[s].Setup =>
       \E i \in Idx("setup", s, 0) : trace[i].err = Nil

\* Every test of suite s returned from runTest without a run error: it has
\* a result, and the result is a success.
TestsSucceeded(s) ==
    \A t \in 1..Len(TestSuites[s].Tests) :
       \E k \in ResultsOf(s, t) : Results[k].Success

\* C31: the teardown of a suite that has one is invoked if and only if the
\* setup of the suite, when it has one, succeeded and every test of the
\* suite returned without a run error: an invoked teardown has both before
\* it, and a run that is over and had both for a suite it came to has
\* invoked the teardown of the suite.  When the setup of a suite fails, the
\* teardown of that suite is never invoked, and the teardown of every
\* earlier suite that has one was invoked and returned nil before.
C31_TeardownIff ==
    /\ \A s \in 1..Len(TestSuites) :
          TestSuites[s].Teardown =>
             /\ Invoked("teardown", s, 0) =>
                   /\ SetupSucceeded(s)
                   /\ TestsSucceeded(s)
                   /\ \A i \in Idx("teardown", s, 0) : \A j \in 1..Len(trace) :
                         (trace[j].s = s /\ j # i) => j < i
             /\ (pc = "done" /\ s <= si /\ SetupSucceeded(s)
                    /\ TestsSucceeded(s)) => Invoked("teardown", s, 0)
             /\ (\E i \in Idx("setup", s, 0) : trace[i].err # Nil)
                   => ~Invoked("teardown", s, 0)
    /\ \A i \in 1..Len(trace) :
          (trace[i].op = "setup" /\ trace[i].err # Nil) =>
             \A s \in 1..(trace[i].s - 1) :
                TestSuites[s].Teardown =>
                   \E j \in 1..(i - 1) :
                      /\ trace[j].op = "teardown"
                      /\ trace[j].s = s
                      /\ trace[j].err = Nil

\* C31, its case: both suites have a setup and a teardown; the first suite
\* ran a test and its teardown was invoked, then the setup of the second
\* suite failed, and its teardown was not invoked.
C31_Witness ==
    /\ pc = "done"
    /\ Len(TestSuites) = 2
    /\ TestSuites[1].Setup /\ TestSuites[1].Teardown
    /\ TestSuites[2].Setup /\ TestSuites[2].Teardown
    /\ Len(TestSuites[1].Tests) >= 1
    /\ Len(TestSuites[2].Tests) >= 1
    /\ Invoked("teardown", 1, 0)
    /\ \E i \in Idx("setup", 2, 0) : trace[i].err # Nil
    /\ ~Invoked("teardown", 2, 0)

----------------------------------------------------------------------------
\* The registered suites.

\* C35: the registered suites change only in a step in which a thread
\* returns from AddTestSuite, never in a step of RunTests, of GetResults or
\* of GetSummary; that step puts exactly one suite at the end and leaves the
\* suites registered before and Results as they are.
C35_SuitesFrame ==
    [][TestSuites' # TestSuites =>
          /\ \E th \in Adding : threads'[th].at # "AddTestSuite"
          /\ Len(TestSuites') = Len(TestSuites) + 1
          /\ SubSeq(TestSuites', 1, Len(TestSuites)) = TestSuites
          /\ Results' = Results]_vars

\* C35, its case: a run of the first suite is over, with the result of its
\* test, and a second suite has been registered after it.
C35_Witness ==
    /\ Len(TestSuites) = 2
    /\ TestSuites[2] = AddedSuite(2)
    /\ ~TestSuites[1].Teardown
    /\ Len(Results) = 1
    /\ Results[1].Success
    /\ \A th \in Threads : threads[th].at = "idle"

----------------------------------------------------------------------------
\* RunTests called again.

\* The place of the last such call before place i of the trace; 0 when the
\* call before i is the first one.  What the call made before place i
\* invoked and appended is in the places after it, up to the next call.
CallBefore(i) ==
    LET marks == {j \in 1..(i - 1) : IsCallEvent(trace[j])}
    IN  IF marks = {} THEN 0
        ELSE CHOOSE j \in marks : \A other \in marks : other <= j

\* C32: RunTests never clears Results or the list of suites.  Every call of
\* RunTests on the same runner goes through the plan of the registered
\* suites from the first suite on, and a call that returned nil went through
\* all of it; Results holds what all the calls appended, in the order in
\* which they did, the results of a call after those of the calls before
\* it; and when all the calls made have returned nil, Results holds one
\* result per test and call, those of a later call in the order of those of
\* the first, and GetSummary counts them all.
C32_Rerun ==
    LET plan == RunPlan(TestSuites, 1)
        tests == Cardinality(RegisteredTests)
        marks == {i \in 1..Len(trace) : IsCallEvent(trace[i])}
    IN  /\ ResultsAsAppended
        /\ \A end \in marks \cup {Len(trace) + 1} :
              LET first == CallBefore(end) + 1
                  steps == end - first
                  over == IF end <= Len(trace) THEN trace[end].err = Nil
                          ELSE pc = "done" /\ ret = Nil
              IN  /\ steps <= Len(plan)
                  /\ [k \in 1..steps |->
                         Step(trace[first + k - 1].op, trace[first + k - 1].s,
                              trace[first + k - 1].t)]
                        = SubSeq(plan, 1, steps)
                  /\ over => steps = Len(plan)
        /\ (pc = "done" /\ ret = Nil
               /\ \A i \in marks : trace[i].err = Nil) =>
              /\ \A n \in RegisteredTests :
                    Cardinality(ResultsOf(n[1], n[2])) = RunsCalled
              /\ Len(Results) = RunsCalled * tests
              /\ \A k \in 1..(Len(Results) - tests) :
                    Results[k + tests].Test = Results[k].Test
              /\ Summarize(Results).TotalTests = RunsCalled * tests
              /\ Summarize(Results).PassedTests
                    + Summarize(Results).SkippedTests = RunsCalled * tests

\* C32, its case: two suites with three tests, the second suite with a
\* teardown; RunTests was called twice and returned nil both times, and
\* Results holds six results.
C32_Witness ==
    /\ pc = "done"
    /\ ret = Nil
    /\ RunsCalled = 2
    /\ \A i \in 1..Len(trace) : IsCallEvent(trace[i]) => trace[i].err = Nil
    /\ Len(TestSuites) = 2
    /\ Len(Results) = 6
    /\ TestSuites[2].Teardown
    /\ Summarize(Results).PassedTests = 6

----------------------------------------------------------------------------
\* The counts and the tracked names of BaseTestImplementation.

\* C38 as stated: after any sequence of calls of SetupTestEnvironment, the
\* create and delete methods, TeardownTestEnvironment and ResetTestState,
\* the count of a type is at least the number of names tracked for it.
C38_Original ==
    \A type \in ResourceTypes :
       impl.TestResults.ResourceCounts[type]
          >= Len(impl.CreatedResources[type])

\* C38, amended: SetupTestEnvironment puts the counts back to zero and
\* keeps the tracked names, so the count of a type is at least the number
\* of names tracked for it less those that were tracked when
\* SetupTestEnvironment was last called; it is at least the number of
\* tracked names as long as SetupTestEnvironment has not been called with
\* names tracked, and after TeardownTestEnvironment and ResetTestState,
\* which clear them.  A delete never changes a count.
C38_CountsCoverTracked ==
    [](\A type \in ResourceTypes :
          /\ impl.TestResults.ResourceCounts[type] + impl.uncounted[type]
                >= Len(impl.CreatedResources[type])
          /\ impl.last.op \in {"teardown", "reset"} =>
                /\ impl.CreatedResources[type] = <<>>
                /\ impl.uncounted[type] = 0
          /\ impl.last.op \in {"setup", "reset"} =>
                impl.TestResults.ResourceCounts[type] = 0)
    /\ [][/\ impl'.last.op = "delete" =>
                impl'.TestResults.ResourceCounts
                   = impl.TestResults.ResourceCounts
          /\ impl'.last.op = "setup" =>
                impl'.CreatedResources = impl.CreatedResources
          /\ impl'.last.op = "teardown" =>
                impl'.TestResults.ResourceCounts
                   = impl.TestResults.ResourceCounts]_vars

\* C38, its case: a node was created, SetupTestEnvironment was called, and
\* a second node was created: two names are tracked and one is counted.
C38_Witness ==
    /\ impl.last.op = "create"
    /\ Len(impl.CreatedResources["node"]) = 2
    /\ impl.TestResults.ResourceCounts["node"] = 1
    /\ impl.uncounted["node"] = 1

====
